---- MODULE Spec2Model ----
(***************************************************************************)
(* Model of DraftSimulator (src/mtg_draft_analysis.py): sealed pool        *)
(* generation, deck building, multi-run simulation.                        *)
(*                                                                         *)
(* Representation choices                                                  *)
(*  - a string the code takes apart (archetype code, mana cost) is a       *)
(*    sequence of one-character strings;                                   *)
(*  - a type line is an atomic string, and the substring tests the code    *)
(*    makes on it are the table TypeWords;                                 *)
(*  - an oracle text is the set of the lower-cased terms that occur in it  *)
(*    as substrings (closed under the substring relation between terms);   *)
(*  - a float score n * w is the pair (tenths, ulp): tenths = n * 10w is   *)
(*    the exact value in tenths, ulp is the sign of the IEEE-754 rounding  *)
(*    error of n * w against the correctly rounded decimal, so that the    *)
(*    lexicographic order on the pair is the order of the floats;          *)
(*  - the random module is a generator with state rng.                     *)
(***************************************************************************)
EXTENDS Integers, Sequences, FiniteSets, TLC

\* ------------------------------------------------------------------ bounds
MaxPoolLen == 26
MaxDrafts == 2
MaxCalls == 2
RandMod == 128
MaxSeed == 7
MaxBatch == 2

\* --------------------------------------------------------------- utilities
\* a sequence given as a function, as the tuple of its values
Tuple(s) == SubSeq(s, 1, Len(s))

Range(s) == {s[i] : i \in 1..Len(s)}

RECURSIVE SumSeq(_)
SumSeq(s) ==
    IF Len(s) = 0 THEN 0
    ELSE IF Len(s) = 1 THEN s[1]
    ELSE LET h == Len(s) \div 2
         IN SumSeq(SubSeq(s, 1, h)) + SumSeq(SubSeq(s, h + 1, Len(s)))

Count(s, x) == Cardinality({i \in 1..Len(s) : s[i] = x})

Repeat(x, n) == Tuple([i \in 1..n |-> x])

RECURSIVE Flatten(_)
Flatten(ss) == IF ss = <<>> THEN <<>> ELSE ss[1] \o Flatten(Tail(ss))

Min2(a, b) == IF a <= b THEN a ELSE b

\* ------------------------------------------------------------ card records
Colors == <<"W", "U", "B", "R", "G">>

TCreature == "Creature - Human"
TInstant == "Instant"
TSorcery == "Sorcery"
TArtifact == "Artifact"
TArtifactCreature == "Artifact Creature - Golem"
TEnchantment == "Enchantment - Aura"
TLand == "Land"
TBasicLand == "Basic Land"

\* the words among Land, Creature, Removal that occur in a type line
TypeWords(tl) ==
    CASE tl = TCreature -> {"Creature"}
      [] tl = TArtifactCreature -> {"Creature"}
      [] tl = TLand -> {"Land"}
      [] tl = TBasicLand -> {"Land"}
      [] OTHER -> {}

InTypeLine(word, tl) == word \in TypeWords(tl)

\* type_line.split(long dash)[0].strip() of line 671; the long dash of a type
\* line is written " - " here
main_type(tl) ==
    CASE tl = TCreature -> "Creature"
      [] tl = TArtifactCreature -> "Artifact Creature"
      [] tl = TEnchantment -> "Enchantment"
      [] OTHER -> tl

\* "{1}{W}{W}" as its characters
RECURSIVE Braced(_)
Braced(syms) ==
    IF syms = <<>> THEN <<>> ELSE <<"{", syms[1], "}">> \o Braced(Tail(syms))

Card(name, cost, tl, text, colors, rarity, cmc) ==
    [name |-> name, mana_cost |-> Braced(cost), type_line |-> tl,
     oracle_text |-> text, colors |-> colors, rarity |-> rarity, cmc |-> cmc]

\* the cards a catalog is made of: 11 commons, 4 uncommons, 2 rares/mythics
CardDB == <<
    Card("Devoted Duelist", <<"W">>, TCreature, {"vigilance"}, <<"W">>, "common", 1),
    Card("Salt Road Knight", <<"2", "W", "W">>, TCreature, {"knight", "lifelink"}, <<"W">>, "common", 4),
    Card("Ringing Strike", <<"1", "U">>, TInstant, {"draw", "instant"}, <<"U">>, "common", 2),
    Card("Glacial Crab", <<"2", "U">>, TCreature, {"crab", "flash"}, <<"U">>, "common", 3),
    Card("Hardened Zombie", <<"1", "B">>, TCreature, {"zombie"}, <<"B">>, "common", 2),
    Card("Caustic Exhale", <<"1", "B", "B">>, TInstant, {"destroy", "-"}, <<"B">>, "common", 3),
    Card("Goblin Raider", <<"R">>, TCreature, {"goblin", "haste"}, <<"R">>, "common", 1),
    Card("Molten Exhale", <<"1", "R">>, TSorcery, {"damage"}, <<"R">>, "common", 2),
    Card("Sagu Beast", <<"4", "G", "G">>, TCreature, {"beast", "trample", "ramp"}, <<"G">>, "common", 6),
    Card("Dragonstorm Globe", <<"3">>, TArtifact, {"mana"}, <<>>, "common", 3),
    Card("Evolving Wilds", <<>>, TLand, {"sacrifice"}, <<>>, "common", 0),
    Card("Mardu Cleric", <<"W", "B">>, TCreature, {"cleric", "drain"}, <<"W", "B">>, "uncommon", 2),
    Card("Stone Golem", <<"4">>, TArtifactCreature, {}, <<>>, "uncommon", 4),
    Card("Knockout", <<"1", "G">>, TInstant, {"fight"}, <<"G">>, "uncommon", 2),
    Card("Izzet Spark", <<"U", "R">>, TInstant, {"instant", "copy"}, <<"R", "U">>, "uncommon", 2),
    Card("Storm Dragon", <<"3", "R", "R">>, TCreature, {"dragon", "flying"}, <<"R">>, "rare", 5),
    Card("Radiant Aura", <<"2", "W", "W">>, TEnchantment, {"enchantment", "exile"}, <<"W">>, "mythic", 4)
>>

CardIds == 1..Len(CardDB)

\* --------------------------------------------------------- archetype model
AUTO == <<"a", "u", "t", "o">>
MONO_ == <<"M", "O", "N", "O", "_">>
FIVE_C == <<"5", "C">>

Profile(kw, cw, ncw, mc) ==
    [keywords |-> kw, creature_weight |-> cw, noncreature_weight |-> ncw,
     min_creatures |-> mc]

\* self.archetype_weights; the weights are in tenths (1.3 is 13)
archetype_weights ==
    (<<"W", "B">> :> Profile({"drain", "lifegain", "sacrifice", "afterlife", "cleric", "vampire", "knight", "extort", "token"}, 10, 10, 15))
 @@ (<<"U", "R">> :> Profile({"instant", "sorcery", "prowess", "draw", "wizard", "phoenix", "elemental", "flash", "copy"}, 6, 14, 12))
 @@ (<<"B", "G">> :> Profile({"graveyard", "deathtouch", "dredge", "scavenge", "insect", "fungus", "elf", "sacrifice", "undergrowth"}, 11, 9, 16))
 @@ (<<"R", "W">> :> Profile({"mentor", "attack", "equipment", "first strike", "double strike", "soldier", "warrior", "samurai", "haste"}, 13, 7, 18))
 @@ (<<"G", "U">> :> Profile({"adapt", "evolve", "counter", "flash", "mutate", "crab", "merfolk", "draw", "clone"}, 11, 9, 16))
 @@ (<<"W", "B", "G">> :> Profile({"outlast", "abzan", "lifelink", "deathtouch", "vigilance", "counter", "toughness", "spirit", "value"}, 11, 9, 16))
 @@ (<<"U", "R", "W">> :> Profile({"prowess", "jeskai", "monk", "flying", "first strike", "noncreature", "instant", "sorcery", "trigger"}, 8, 12, 13))
 @@ (<<"B", "G", "U">> :> Profile({"delve", "sultai", "zombie", "snake", "naga", "self-mill", "graveyard", "deathtouch", "value"}, 9, 11, 14))
 @@ (<<"R", "W", "B">> :> Profile({"dash", "mardu", "warrior", "knight", "goblin", "haste", "first strike", "lifelink", "raid"}, 12, 8, 17))
 @@ (<<"G", "U", "R">> :> Profile({"ferocious", "temur", "flash", "elemental", "shaman", "draw", "power", "trample", "instants"}, 10, 10, 15))
 @@ ((MONO_ \o <<"W">>) :> Profile({"vigilance", "lifelink", "enchantment", "soldier", "knight", "cleric", "human", "angel", "equipment"}, 12, 8, 18))
 @@ ((MONO_ \o <<"U">>) :> Profile({"counter", "draw", "flash", "flying", "bounce", "wizard", "merfolk", "illusion", "artifact"}, 7, 13, 12))
 @@ ((MONO_ \o <<"B">>) :> Profile({"destroy", "sacrifice", "discard", "zombie", "vampire", "demon", "deathtouch", "drain", "removal"}, 10, 10, 15))
 @@ ((MONO_ \o <<"R">>) :> Profile({"damage", "haste", "goblin", "elemental", "dragon", "devil", "burn", "sacrifice", "attack"}, 13, 7, 19))
 @@ ((MONO_ \o <<"G">>) :> Profile({"trample", "reach", "elf", "beast", "hydra", "wolf", "mana", "ramp", "+1/+1"}, 14, 6, 20))
 @@ (FIVE_C :> Profile({"domain", "converge", "gate", "fixng", "ramp", "multicolor", "draw", "removal", "value"}, 10, 10, 14))

TwoColorCodes ==
    {<<"W", "U">>, <<"U", "B">>, <<"B", "R">>, <<"R", "G">>, <<"G", "W">>,
     <<"W", "B">>, <<"U", "R">>, <<"B", "G">>, <<"R", "W">>, <<"G", "U">>}

ThreeColorCodes ==
    {<<"W", "U", "B">>, <<"U", "B", "R">>, <<"B", "R", "G">>, <<"R", "G", "W">>,
     <<"G", "W", "U">>, <<"W", "B", "G">>, <<"U", "R", "W">>, <<"B", "G", "U">>,
     <<"R", "W", "B">>, <<"G", "U", "R">>}

startswith(s, prefix) ==
    Len(s) >= Len(prefix) /\ SubSeq(s, 1, Len(prefix)) = prefix

\* ------------------------------------------------------------- build_deck
\* lines 348-356: the per-build copies of the pool's cards
pool_data(pool) == Tuple([i \in 1..Len(pool) |-> CardDB[pool[i]]])

ColorKeys == <<"W", "U", "B", "R", "G", "colorless", "multicolor">>

\* color_counts without lines 366-368: a multicolor card credits no color
color_counts_single(pd) ==
    [k \in Range(ColorKeys) |->
        IF k = "colorless"
        THEN Cardinality({i \in 1..Len(pd) : Len(pd[i].colors) = 0})
        ELSE IF k = "multicolor"
        THEN Cardinality({i \in 1..Len(pd) : Len(pd[i].colors) > 1})
        ELSE SumSeq([i \in 1..Len(pd) |->
                 IF Len(pd[i].colors) = 1 /\ pd[i].colors[1] = k THEN 1 ELSE 0])]

\* lines 359-370
color_counts(pd) ==
    [k \in Range(ColorKeys) |->
        IF k = "colorless"
        THEN Cardinality({i \in 1..Len(pd) : Len(pd[i].colors) = 0})
        ELSE IF k = "multicolor"
        THEN Cardinality({i \in 1..Len(pd) : Len(pd[i].colors) > 1})
        ELSE SumSeq([i \in 1..Len(pd) |->
                 IF Len(pd[i].colors) > 1 THEN Count(pd[i].colors, k)
                 ELSE IF Len(pd[i].colors) = 1 /\ pd[i].colors[1] = k THEN 1
                 ELSE 0])]

\* sorted(..., reverse=True) and list.sort(reverse=True) are stable: an
\* element comes after those with a higher key and after the earlier ones with
\* the same key
SortedDesc(s, keys) ==
    LET n == Len(s)
        ks == Tuple(keys)
        rank == Tuple([i \in 1..n |->
                    Cardinality({j \in 1..n : ks[j] > ks[i]
                                              \/ (ks[j] = ks[i] /\ j < i)}) + 1])
    IN Tuple([r \in 1..n |-> s[CHOOSE i \in 1..n : rank[i] = r]])

\* list.sort(): stable, ascending
SortedAsc(s, keys) ==
    LET n == Len(s)
        ks == Tuple(keys)
        rank == Tuple([i \in 1..n |->
                    Cardinality({j \in 1..n : ks[j] < ks[i]
                                              \/ (ks[j] = ks[i] /\ j < i)}) + 1])
    IN Tuple([r \in 1..n |-> s[CHOOSE i \in 1..n : rank[i] = r]])

\* lines 377-382 and 397-402
sorted_colors(cc) ==
    LET cs == SelectSeq(ColorKeys, LAMBDA c : c \notin {"colorless", "multicolor"})
    IN SortedDesc(cs, [i \in 1..Len(cs) |-> cc[cs[i]]])

Take(s, n) == SubSeq(s, 1, Min2(n, Len(s)))

\* primary_colors with the slice of lines 382 and 402 taking four colors
primary_colors_four(archetype, cc) ==
    IF archetype = AUTO THEN Take(sorted_colors(cc), 4)
    ELSE IF archetype \in TwoColorCodes THEN archetype
    ELSE IF archetype \in ThreeColorCodes THEN archetype
    ELSE IF startswith(archetype, MONO_) THEN <<archetype[Len(archetype)]>>
    ELSE IF archetype = FIVE_C THEN Colors
    ELSE Take(sorted_colors(cc), 4)

\* primary_colors with the letters of a code put in the order W, U, B, R, G
primary_colors_canonical(archetype, cc) ==
    IF archetype = AUTO THEN Take(sorted_colors(cc), 2)
    ELSE IF archetype \in TwoColorCodes \cup ThreeColorCodes
    THEN SelectSeq(Colors, LAMBDA c : c \in Range(archetype))
    ELSE IF startswith(archetype, MONO_) THEN <<archetype[Len(archetype)]>>
    ELSE IF archetype = FIVE_C THEN Colors
    ELSE Take(sorted_colors(cc), 2)

\* lines 372-402
primary_colors(archetype, cc) ==
    IF archetype = AUTO THEN Take(sorted_colors(cc), 2)
    ELSE IF archetype \in TwoColorCodes THEN archetype
    ELSE IF archetype \in ThreeColorCodes THEN archetype
    ELSE IF startswith(archetype, MONO_) THEN <<archetype[Len(archetype)]>>
    ELSE IF archetype = FIVE_C THEN Colors
    ELSE Take(sorted_colors(cc), 2)

\* the value of n * (w / 10) in floating point, against the decimal n * w / 10:
\* -1 when the product is the float just below, 1 when just above, 0 when equal
FloatErr(n, w) ==
    CASE w \in {6, 12} /\ n \in {3, 6, 9, 12, 18, 23, 24} -> -1
      [] w \in {7, 14} /\ n \in {3, 6, 7, 11, 12, 14, 17, 19, 22, 23, 24, 28, 29} -> -1
      [] w = 8 /\ n \in {3, 6, 7, 12, 14, 17, 19, 23, 24, 28, 29} -> 1
      [] w = 9 /\ n \in {13, 21, 26} -> 1
      [] w = 11 /\ n \in {3, 6, 7, 11, 12, 14, 17, 19, 22, 24, 25, 27, 28, 29} -> 1
      [] w = 13 /\ n \in {3, 6, 9, 12, 13, 18, 23, 24, 26} -> 1
      [] OTHER -> 0

\* the order of two scores is the order of their keys
ScoreKey(score) == 3 * score.tenths + score.ulp

IsCreature(card) == InTypeLine("Creature", card.type_line)
IsLand(card) == InTypeLine("Land", card.type_line)

\* line 424-425
rarity_bonus(rarity) ==
    CASE rarity = "common" -> 0
      [] rarity = "uncommon" -> 1
      [] rarity = "rare" -> 2
      [] rarity = "mythic" -> 3
      [] OTHER -> 0

RemovalTerms == {"destroy", "exile", "damage", "-", "fight"}

\* base_score with "if cmc <= 5" for the "elif" of line 430: a card of mana
\* value 3 or less takes both bonuses
base_score_both_cmc(card, pc) ==
      (IF \E i \in 1..Len(card.colors) : card.colors[i] \in Range(pc) THEN 5 ELSE 0)
    + (IF Range(card.colors) = Range(pc) THEN 3 ELSE 0)
    + (IF Len(card.colors) = 0 /\ ~IsLand(card) THEN 3 ELSE 0)
    + rarity_bonus(card.rarity)
    + (IF card.cmc <= 3 THEN 2 ELSE 0) + (IF card.cmc <= 5 THEN 1 ELSE 0)
    + (IF IsCreature(card) THEN 1 ELSE 0)
    + (IF InTypeLine("Removal", card.type_line)
          \/ RemovalTerms \cap card.oracle_text # {} THEN 2 ELSE 0)

\* base_score with issubset for the set equality of line 416: a card whose
\* colors all are primary colors takes the 3 points of the exact match
base_score_subset(card, pc) ==
      (IF \E i \in 1..Len(card.colors) : card.colors[i] \in Range(pc) THEN 5 ELSE 0)
    + (IF Len(card.colors) > 0 /\ Range(card.colors) \subseteq Range(pc)
       THEN 3 ELSE 0)
    + (IF Len(card.colors) = 0 /\ ~IsLand(card) THEN 3 ELSE 0)
    + rarity_bonus(card.rarity)
    + (IF card.cmc <= 3 THEN 2 ELSE IF card.cmc <= 5 THEN 1 ELSE 0)
    + (IF IsCreature(card) THEN 1 ELSE 0)
    + (IF InTypeLine("Removal", card.type_line)
          \/ RemovalTerms \cap card.oracle_text # {} THEN 2 ELSE 0)

\* lines 409-438: the score before the archetype profile is applied
base_score(card, pc) ==
      (IF \E i \in 1..Len(card.colors) : card.colors[i] \in Range(pc) THEN 5 ELSE 0)
    + (IF Range(card.colors) = Range(pc) THEN 3 ELSE 0)
    + (IF Len(card.colors) = 0 /\ ~IsLand(card) THEN 3 ELSE 0)
    + rarity_bonus(card.rarity)
    + (IF card.cmc <= 3 THEN 2 ELSE IF card.cmc <= 5 THEN 1 ELSE 0)
    + (IF IsCreature(card) THEN 1 ELSE 0)
    + (IF InTypeLine("Removal", card.type_line)
          \/ RemovalTerms \cap card.oracle_text # {} THEN 2 ELSE 0)

\* lines 406-454
card_score(card, archetype, pc) ==
    IF archetype \in DOMAIN archetype_weights
    THEN LET prof == archetype_weights[archetype]
             n == base_score(card, pc)
                  + Cardinality(prof.keywords \cap card.oracle_text)
             w == IF IsCreature(card) THEN prof.creature_weight
                  ELSE prof.noncreature_weight
         IN [tenths |-> n * w, ulp |-> FloatErr(n, w)]
    ELSE [tenths |-> 10 * base_score(card, pc), ulp |-> 0]

Scored(card, score) == [f \in DOMAIN card \cup {"score"} |->
                           IF f = "score" THEN score ELSE card[f]]

scored_pool(pd, archetype, pc) ==
    Tuple([i \in 1..Len(pd) |-> Scored(pd[i], card_score(pd[i], archetype, pc))])

\* playable with the subset test of line 468 alone: a card with a color
\* outside the primary colors is not playable
playable_subset(card, pc) ==
    \/ IsLand(card)
    \/ \A i \in 1..Len(card.colors) : card.colors[i] \in Range(pc)

\* lines 457-469
playable(card, pc) ==
    \/ IsLand(card)
    \/ Len(card.colors) = 0
    \/ \E i \in 1..Len(card.colors) : card.colors[i] \in Range(pc)
    \/ \A i \in 1..Len(card.colors) : card.colors[i] \in Range(pc)

\* playable_cards sorted ascending and then reversed: cards of equal score
\* come out in the reverse of the pool's order
playable_cards_unstable(pd, pc) ==
    LET kept == SelectSeq(pd, LAMBDA c : playable(c, pc))
        asc == SortedAsc(kept, [i \in 1..Len(kept) |-> ScoreKey(kept[i].score)])
    IN Tuple([i \in 1..Len(asc) |-> asc[Len(asc) + 1 - i]])

\* lines 457-472
playable_cards(pd, pc) ==
    LET kept == SelectSeq(pd, LAMBDA c : playable(c, pc))
    IN SortedDesc(kept, [i \in 1..Len(kept) |-> ScoreKey(kept[i].score)])

\* lines 475-477
min_creatures(archetype) ==
    IF archetype \in DOMAIN archetype_weights
    THEN archetype_weights[archetype].min_creatures ELSE 14

Drop(s, n) == SubSeq(s, n + 1, Len(s))

\* list.remove(x): drops the first element equal to x
list_remove(s, x) ==
    LET i == CHOOSE i \in 1..Len(s) :
                 s[i] = x /\ \A j \in 1..(i - 1) : s[j] # x
    IN SubSeq(s, 1, i - 1) \o Drop(s, i)

RECURSIVE RemoveAll(_, _)
RemoveAll(s, xs) ==
    IF xs = <<>> THEN s ELSE RemoveAll(list_remove(s, xs[1]), Tail(xs))

creature_count(cards) == Cardinality({i \in 1..Len(cards) : IsCreature(cards[i])})

\* lines 480-483
initial_selection(pl) == IF Len(pl) > 23 THEN SubSeq(pl, 1, 23) ELSE pl

\* additional_creatures taken from the whole ranking and not from the cards
\* after place 23: creatures of the initial selection are taken again
additional_creatures_any(pl, needed) ==
    Take(SelectSeq(pl, IsCreature), needed)

\* lines 493-494
additional_creatures(pl, needed) ==
    Take(SelectSeq(Drop(pl, Min2(23, Len(pl))), IsCreature), needed)

\* evicted without the removal of lines 502-503
evicted_none(potential, additional) == <<>>

\* evicted without the sort of line 499: the non-creatures are removed in
\* the order of the selection, the best first
evicted_unsorted(potential, additional) ==
    LET non_creatures == SelectSeq(potential, LAMBDA c : ~IsCreature(c))
    IN Take(non_creatures, Min2(Len(additional), Len(non_creatures)))

\* lines 497-503: the non-creatures of the selection that are removed
evicted(potential, additional) ==
    LET nc == SelectSeq(potential, LAMBDA c : ~IsCreature(c))
        non_creatures == SortedAsc(nc, [i \in 1..Len(nc) |-> ScoreKey(nc[i].score)])
    IN Take(non_creatures, Min2(Len(additional), Len(non_creatures)))

\* lines 480-506
potential_cards(pl, archetype) ==
    LET potential == initial_selection(pl)
        short == min_creatures(archetype) - creature_count(potential)
    IN IF short > 0
       THEN LET additional == additional_creatures(pl, short)
            IN RemoveAll(potential, evicted(potential, additional)) \o additional
       ELSE potential

\* line 509
selected_cards(pl, archetype) ==
    LET potential == potential_cards(pl, archetype)
    IN IF Len(potential) > 23 THEN SubSeq(potential, 1, 23) ELSE potential

\* basic_land_name with one name misspelt
basic_land_name_typo(color) ==
    IF color = "W" THEN "Plains"
    ELSE IF color = "U" THEN "Islands"
    ELSE IF color = "B" THEN "Swamp"
    ELSE IF color = "R" THEN "Mountain"
    ELSE IF color = "G" THEN "Forest"
    ELSE "Wastes"

\* lines 565-572
basic_land_name(color) ==
    IF color = "W" THEN "Plains"
    ELSE IF color = "U" THEN "Island"
    ELSE IF color = "B" THEN "Swamp"
    ELSE IF color = "R" THEN "Mountain"
    ELSE IF color = "G" THEN "Forest"
    ELSE "Wastes"

basic_land(color) == [name |-> basic_land_name(color), type_line |-> TBasicLand]

\* lines 516-522: the symbols of the primary colors in the selected costs
mana_symbols(selected, pc) ==
    [c \in Range(Colors) |->
        IF c \in Range(pc)
        THEN Count(pc, c) * SumSeq([i \in 1..Len(selected) |-> Count(selected[i].mana_cost, c)])
        ELSE 0]

\* int(lands_needed * (a / t)) in floating point: the quotient a / t and the
\* product are each rounded, which loses one land for these (lands, a / t)
FloatShort == {<<22, 15, 22>>, <<23, 13, 23>>, <<26, 15, 26>>, <<39, 31, 39>>}

\* land_count with the 17 lands of a full deck in place of lands_needed
land_count_17(lands_needed, a, t) == (17 * a) \div t

\* land_count rounded up and not down
land_count_up(lands_needed, a, t) == (lands_needed * a + t - 1) \div t

land_count(lands_needed, a, t) ==
    LET exact == (lands_needed * a) \div t
    IN IF \E e \in FloatShort : e[1] = lands_needed /\ a * e[3] = e[2] * t
       THEN exact - 1 ELSE exact

\* lines 527-545
base_lands(pc, ms, lands_needed) ==
    LET total_colored_symbols == SumSeq([i \in 1..Len(pc) |-> ms[pc[i]]])
    IN IF total_colored_symbols = 0
       THEN IF Len(pc) = 1
            THEN Repeat(basic_land(pc[1]), lands_needed)
            ELSE Flatten([i \in 1..Len(pc) |->
                     Repeat(basic_land(pc[i]), lands_needed \div Len(pc))])
       ELSE Flatten([i \in 1..Len(pc) |->
                Repeat(basic_land(pc[i]),
                       land_count(lands_needed, ms[pc[i]], total_colored_symbols))])

\* most_demanding_color taking the last of the colors with the highest count
most_demanding_color_last(pc, ms) ==
    pc[CHOOSE i \in 1..Len(pc) :
          /\ \A j \in 1..Len(pc) : ms[pc[j]] <= ms[pc[i]]
          /\ \A j \in (i + 1)..Len(pc) : ms[pc[j]] < ms[pc[i]]]

\* max(primary_colors, key=...): the first color with the highest count
most_demanding_color(pc, ms) ==
    pc[CHOOSE i \in 1..Len(pc) :
          /\ \A j \in 1..Len(pc) : ms[pc[j]] <= ms[pc[i]]
          /\ \A j \in 1..(i - 1) : ms[pc[j]] < ms[pc[i]]]

\* min(primary_colors, key=...): the first color with the lowest count
least_demanding_color(pc, ms) ==
    pc[CHOOSE i \in 1..Len(pc) :
          /\ \A j \in 1..Len(pc) : ms[pc[j]] >= ms[pc[i]]
          /\ \A j \in 1..(i - 1) : ms[pc[j]] > ms[pc[i]]]

\* lines 548-551
RECURSIVE add_lands(_, _, _, _)
add_lands(lands, pc, ms, lands_needed) ==
    IF Len(lands) < lands_needed
    THEN add_lands(Append(lands, basic_land(most_demanding_color(pc, ms))),
                   pc, ms, lands_needed)
    ELSE lands

\* lines 553-559: a pass that finds no land of the least demanding color
\* removes nothing, and the loop then never ends
RECURSIVE remove_lands(_, _, _, _)
remove_lands(lands, pc, ms, lands_needed) ==
    IF Len(lands) > lands_needed
    THEN LET name == basic_land_name(least_demanding_color(pc, ms))
         IN IF \E i \in 1..Len(lands) : lands[i].name = name
            THEN remove_lands(list_remove(lands, basic_land(least_demanding_color(pc, ms))),
                              pc, ms, lands_needed)
            ELSE [hang |-> TRUE, lands |-> lands]
    ELSE [hang |-> FALSE, lands |-> lands]

\* adjust_lands without the loop of lines 548-551
adjust_lands_no_add(lands, pc, ms, lands_needed) ==
    remove_lands(lands, pc, ms, lands_needed)

\* lines 547-559
adjust_lands(lands, pc, ms, lands_needed) ==
    remove_lands(add_lands(lands, pc, ms, lands_needed), pc, ms, lands_needed)

\* lands_needed with the 17 lands of a full deck
lands_needed_17(selected) == 17

\* line 512
lands_needed(selected) == 40 - Len(selected)

NoDeck(status, pc) ==
    [status |-> status, deck |-> <<>>, primary_colors |-> pc, n_selected |-> 0,
     initial_creatures |-> 0, base_lands |-> 0]

\* lines 333-563.  status: "ok" (a deck is returned), "KeyError" (line 522 or
\* 525 looks up a primary color that is no key of mana_symbols), "hang" (the
\* loop of lines 553-559 does not end).  Besides the deck, the result reports
\* the primary colors, the number of selected cards, the number of creatures
\* of the initial selection and the number of lands before the adjustment.
\* The function is written as its stages, each handing its locals to the next.

\* lines 547-563: the lands are adjusted and the deck is returned
deck_of_lands(selected, pc, ms, base, creatures) ==
    LET adjusted == adjust_lands(base, pc, ms, lands_needed(selected))
    IN IF adjusted.hang THEN NoDeck("hang", pc)
       ELSE [status |-> "ok", deck |-> selected \o adjusted.lands,
             primary_colors |-> pc, n_selected |-> Len(selected),
             initial_creatures |-> creatures, base_lands |-> Len(base)]

\* lines 512-545
deck_of_selected(selected, pc, creatures) ==
    CHOOSE deck \in
        {deck_of_lands(selected, pc, ms, base_lands(pc, ms, lands_needed(selected)),
                       creatures) : ms \in {mana_symbols(selected, pc)}} : TRUE

\* lines 475-509
deck_of_playable(pl, archetype, pc) ==
    deck_of_selected(selected_cards(pl, archetype), pc,
                     creature_count(initial_selection(pl)))

\* lines 404-472
deck_of_colors(pd, archetype, pc) ==
    IF \E i \in 1..Len(pc) : pc[i] \notin Range(Colors)
    THEN NoDeck("KeyError", pc)
    ELSE deck_of_playable(playable_cards(scored_pool(pd, archetype, pc), pc),
                          archetype, pc)

\* lines 348-402
deck_of_data(pd, archetype) ==
    deck_of_colors(pd, archetype, primary_colors(archetype, color_counts(pd)))

build_deck(pool, archetype) == deck_of_data(pool_data(pool), archetype)

\* ------------------------------------------------------- the random module
\* the generator steps once per draw; a draw is the new state, in 0..RandMod-1
next_rng(x) == (5 * x + 3) % RandMod

\* random.random() is draw / RandMod; random's randbelow(n) scales a draw
randbelow(draw, n) == (draw * n) \div RandMod

\* random.sample(population, k) of lines 323-325: k draws without replacement
\* (the drawn slot is refilled with the last unused element)
RECURSIVE sample_loop(_, _, _, _)
sample_loop(unused, k, x, result) ==
    IF k = 0 THEN [status |-> "ok", result |-> result, rng |-> x]
    ELSE LET d == next_rng(x)
             j == randbelow(d, Len(unused)) + 1
             n == Len(unused)
         IN sample_loop(Tuple([i \in 1..(n - 1) |-> IF i = j THEN unused[n] ELSE unused[i]]),
                        k - 1, d, Append(result, unused[j]))

\* random_sample drawing with replacement
RECURSIVE choices_loop(_, _, _, _)
choices_loop(population, k, x, result) ==
    IF k = 0 THEN [status |-> "ok", result |-> result, rng |-> x]
    ELSE LET d == next_rng(x)
         IN choices_loop(population, k - 1, d,
                Append(result, population[randbelow(d, Len(population)) + 1]))

random_sample_replace(population, k, x) ==
    IF k > Len(population)
    THEN [status |-> "ValueError", result |-> <<>>, rng |-> x]
    ELSE choices_loop(population, k, x, <<>>)

\* random_sample giving the whole population when it is smaller than k
random_sample_clamped(population, k, x) ==
    sample_loop(population, Min2(k, Len(population)), x, <<>>)

random_sample(population, k, x) ==
    IF k > Len(population)
    THEN [status |-> "ValueError", result |-> <<>>, rng |-> x]
    ELSE sample_loop(population, k, x, <<>>)

\* random.choice(seq) of line 326
random_choice(seq, x) ==
    LET d == next_rng(x)
    IN [result |-> seq[randbelow(d, Len(seq)) + 1], rng |-> d]

\* ---------------------------------------------------- generate_sealed_pool
ByRarity(catalog, rarities) ==
    SelectSeq(catalog, LAMBDA c : CardDB[c].rarity \in rarities)

\* lines 317-327: one booster pack
booster_pack(catalog, x) ==
    LET commons == random_sample(ByRarity(catalog, {"common"}), 10, x)
        uncommons == random_sample(ByRarity(catalog, {"uncommon"}), 3, commons.rng)
        rares == random_sample(ByRarity(catalog, {"rare", "mythic"}), 1, uncommons.rng)
        slot == random_choice(catalog, rares.rng)
    IN IF commons.status # "ok" THEN [status |-> "ValueError", pack |-> <<>>, rng |-> commons.rng]
       ELSE IF uncommons.status # "ok" THEN [status |-> "ValueError", pack |-> <<>>, rng |-> uncommons.rng]
       ELSE IF rares.status # "ok" THEN [status |-> "ValueError", pack |-> <<>>, rng |-> rares.rng]
       ELSE [status |-> "ok",
             pack |-> commons.result \o uncommons.result \o rares.result \o <<slot.result>>,
             rng |-> slot.rng]

\* lines 316-329
RECURSIVE pack_loop(_, _, _, _)
pack_loop(catalog, n, x, sealed) ==
    IF n = 0 THEN [status |-> "ok", pool |-> sealed, rng |-> x]
    ELSE LET p == booster_pack(catalog, x)
         IN IF p.status # "ok" THEN [status |-> p.status, pool |-> <<>>, rng |-> p.rng]
            ELSE pack_loop(catalog, n - 1, p.rng, sealed \o p.pack)

\* lines 307-331
generate_sealed_pool(catalog, x) ==
    IF catalog = <<>> THEN [status |-> "ValueError", pool |-> <<>>, rng |-> x]
    ELSE pack_loop(catalog, 6, x, <<>>)

\* -------------------------------------------------------- simulate_drafts
\* an archetype distribution is the sequence of its (code, weight) items in
\* dict order, the weights in thousandths; <<>> stands for None and for {}
Weights(dist) == [i \in 1..Len(dist) |-> dist[i][2]]

\* lines 588-592 and 601-607: the divisor of the weights (1000 when they are
\* left as given), and the first code whose cumulative weight reaches the draw
scale(dist) ==
    LET total == SumSeq(Weights(dist))
    IN IF 990 <= total /\ total <= 1010 THEN 1000 ELSE total

current_archetype(archetype, dist, draw) ==
    LET hit(i) == draw * scale(dist) <= SumSeq(SubSeq(Weights(dist), 1, i)) * RandMod
    IN IF \E i \in 1..Len(dist) : hit(i)
       THEN dist[CHOOSE i \in 1..Len(dist) : hit(i) /\ \A j \in 1..(i - 1) : ~hit(j)][1]
       ELSE archetype

\* lines 612-614
Tagged(card, archetype, i) ==
    [f \in DOMAIN card \cup {"archetype", "draft_number"} |->
        IF f = "archetype" THEN archetype
        ELSE IF f = "draft_number" THEN i ELSE card[f]]

\* The entries of a deck are dicts, and line 613-614 write the tags on them.
\* deck_objects gives, for every position of a built deck, the position of
\* the dict that stands there: a selected card is a dict of its own (lines
\* 348-356), the lands of one color of lines 531-545 are one dict repeated,
\* and every land of line 551 is a new dict
deck_objects(b) ==
    Tuple([k \in 1..Len(b.deck) |->
        IF k <= b.n_selected \/ k > b.n_selected + b.base_lands THEN k
        ELSE CHOOSE j \in (b.n_selected + 1)..k :
                 /\ b.deck[j].name = b.deck[k].name
                 /\ \A h \in (b.n_selected + 1)..(j - 1) : b.deck[h].name # b.deck[k].name])

\* entry_refs with the land dicts made once and used by every build
entry_refs_shared(first, b) ==
    Tuple([k \in 1..Len(b.deck) |->
        IF k <= b.n_selected THEN first + k ELSE deck_objects(b)[k]])

\* the dicts of a deck among all the dicts built so far: a build makes new ones
entry_refs(first, b) ==
    Tuple([k \in 1..Len(b.deck) |-> first + deck_objects(b)[k]])

\* pool_data_records with pool_data being the pool itself
pool_data_records_alias(pool) == Range(pool)

\* lines 348-356: the catalog records that are entries of pool_data: none,
\* every entry of pool_data is a new dict
pool_data_records(pool) == {}

\* line 409: the fields build_deck writes on catalog records
build_writes(pool) == {<<c, "score">> : c \in pool_data_records(pool)}

\* lines 612-614: the fields the tagging writes on catalog records
tag_writes(pool, deck) ==
    {<<c, f>> : c \in {c \in pool_data_records(pool) :
                          \E k \in 1..Len(deck) : deck[k].name = CardDB[c].name},
                f \in {"archetype", "draft_number"}}

\* lines 612-616 for the deck b of run i: its dicts are added to the dicts
\* built so far, the tags are written on them, the deck is appended
tagged_run(st, pool, b, arch, i) ==
    CHOOSE next \in
        { [heap |-> Tuple([h \in 1..Len(st.heap) + Len(b.deck) |->
                        LET old == IF h <= Len(st.heap) THEN st.heap[h]
                                   ELSE b.deck[h - Len(st.heap)]
                        IN IF h \in Range(refs) THEN Tagged(old, arch, i) ELSE old]),
           all_decks |-> Append(st.all_decks, refs),
           writes |-> st.writes \cup build_writes(pool) \cup tag_writes(pool, b.deck)]
          : refs \in {entry_refs(Len(st.heap), b)} } : TRUE

\* lines 594-616, runs i .. num_drafts - 1; the pool of a draft is generated
\* once (line 596) and then handed to build_deck (line 610)
RECURSIVE draft_loop(_, _, _, _, _, _, _)
draft_loop(catalog, i, num_drafts, archetype, dist, x, st) ==
    IF i >= num_drafts
    THEN [status |-> "ok", rng |-> x, writes |-> st.writes,
          all_decks |-> Tuple([d \in 1..Len(st.all_decks) |->
                           Tuple([k \in 1..Len(st.all_decks[d]) |->
                                     st.heap[st.all_decks[d][k]]])])]
    ELSE CHOOSE r \in
        { LET d == next_rng(g.rng)
              arch == IF dist # <<>> THEN current_archetype(archetype, dist, d)
                      ELSE archetype
              after == IF dist # <<>> THEN d ELSE g.rng
          IN IF g.status # "ok"
             THEN [status |-> g.status, rng |-> g.rng, writes |-> st.writes,
                   all_decks |-> <<>>]
             ELSE CHOOSE q \in
                 { IF b.status # "ok"
                   THEN [status |-> b.status, rng |-> after,
                         writes |-> st.writes \cup build_writes(g.pool),
                         all_decks |-> <<>>]
                   ELSE draft_loop(catalog, i + 1, num_drafts, archetype, dist, after,
                                   tagged_run(st, g.pool, b, arch, i))
                   : b \in {build_deck(g.pool, arch)} } : TRUE
          : g \in {generate_sealed_pool(catalog, x)} } : TRUE

\* lines 574-619
simulate_drafts(catalog, num_drafts, archetype, dist, x) ==
    draft_loop(catalog, 0, num_drafts, archetype, dist, x,
               [heap |-> <<>>, all_decks |-> <<>>, writes |-> {}])

\* --------------------------------------------------------- analyze_drafts
\* line 629
BasicLandNames == {"Plains", "Island", "Swamp", "Mountain", "Forest", "Wastes"}

\* dict.get(key, default)
get(card, key, default) == IF key \in DOMAIN card THEN card[key] ELSE default

\* ",".join(colors), as the sequence of its pieces
RECURSIVE join(_)
join(colors) ==
    IF Len(colors) <= 1 THEN colors
    ELSE <<colors[1], ",">> \o join(Tail(colors))

\* lines 641-646: the color label of a record; a label is a sequence of strings
color_label(card) ==
    IF "colors" \in DOMAIN card
    THEN IF card.colors # <<>> THEN join(card.colors) ELSE <<"Colorless">>
    ELSE IF InTypeLine("Land", get(card, "type_line", "")) THEN <<"Basic Land">>
    ELSE <<"Unknown">>

\* skipped with the test of line 629 left out
skipped_never(card) == FALSE

\* lines 628-630
skipped(card) == card.name \in BasicLandNames

\* lines 632-651: the flat record of a deck entry
record(deck_index, card) ==
    [f \in {"deck_id", "card_name", "type_line", "archetype", "draft_number",
            "colors", "color_count"} \cup ({"cmc", "rarity", "score"} \cap DOMAIN card) |->
        CASE f = "deck_id" -> deck_index
          [] f = "card_name" -> card.name
          [] f = "type_line" -> get(card, "type_line", "Unknown")
          [] f = "archetype" -> get(card, "archetype", AUTO)
          [] f = "draft_number" -> get(card, "draft_number", 0)
          [] f = "colors" -> color_label(card)
          [] f = "color_count" -> IF "colors" \in DOMAIN card THEN Len(card.colors) ELSE 0
          [] OTHER -> card[f]]

\* lines 624-653, deck_index from 0
card_records(decks) ==
    Flatten([d \in 1..Len(decks) |->
        LET kept == SelectSeq(decks[d], LAMBDA card : ~skipped(card))
        IN Tuple([k \in 1..Len(kept) |-> record(d - 1, kept[k])])])

\* value_counts counting the different cards of a value and not its rows
\* (nunique for size)
value_counts_nunique(rows, col) ==
    LET have == SelectSeq(rows, LAMBDA r : col \in DOMAIN r)
    IN [v \in {have[i][col] : i \in 1..Len(have)} |->
           Cardinality({have[i].card_name : i \in {j \in 1..Len(have) : have[j][col] = v}})]

\* Series.value_counts() and groupby(col).size() as a dict: the rows that have
\* no value in the column are left out
value_counts(rows, col) ==
    LET have == SelectSeq(rows, LAMBDA r : col \in DOMAIN r)
    IN [v \in {have[i][col] : i \in 1..Len(have)} |->
           Cardinality({i \in 1..Len(have) : have[i][col] = v})]

\* value_counts().head(k).to_dict(): the k labels with the highest counts.
\* Which of the labels that tie at the cut are kept depends on the sort pandas
\* runs, so the result is given as the counts of the labels that are kept for
\* certain, the set of the tied labels and the number of them that are kept
head(vc, k) ==
    IF Cardinality(DOMAIN vc) <= k THEN [counts |-> vc, tied |-> {}, slots |-> 0]
    ELSE LET cut == CHOOSE c \in {vc[l] : l \in DOMAIN vc} :
                        /\ Cardinality({l \in DOMAIN vc : vc[l] > c}) < k
                        /\ Cardinality({l \in DOMAIN vc : vc[l] >= c}) >= k
             above == {l \in DOMAIN vc : vc[l] > cut}
             tied == {l \in DOMAIN vc : vc[l] = cut}
         IN IF Cardinality(above) + Cardinality(tied) = k
            THEN [counts |-> [l \in above \cup tied |-> vc[l]], tied |-> {}, slots |-> 0]
            ELSE [counts |-> [l \in above |-> vc[l]], tied |-> tied,
                  slots |-> k - Cardinality(above)]

\* line 671: the frame with its main_type column
with_main_type(rows) ==
    Tuple([i \in 1..Len(rows) |->
        [f \in DOMAIN rows[i] \cup {"main_type"} |->
            IF f = "main_type" THEN main_type(rows[i].type_line) ELSE rows[i][f]]])

\* df[df[col] == v]
where(rows, col, v) == SelectSeq(rows, LAMBDA r : r[col] = v)

\* the columns of the frame
columns(rows) == UNION {DOMAIN rows[i] : i \in 1..Len(rows)}

\* df[col].unique()
unique(rows, col) == {rows[i][col] : i \in 1..Len(rows)}

\* lines 687-689: the decks of each archetype, a deck counted once for each
\* archetype its records carry
archetype_counts(df) ==
    [a \in unique(df, "archetype") |->
        Cardinality({df[i].deck_id : i \in {j \in 1..Len(df) : df[j].archetype = a}})]

\* lines 692-702: the metrics of one archetype
archetype_metrics(df, archetype) ==
    [m \in {"most_common_cards"}
            \cup (IF "cmc" \in columns(df) THEN {"mana_curve"} ELSE {}) |->
        IF m = "most_common_cards"
        THEN head(value_counts(where(df, "archetype", archetype), "card_name"), 10)
        ELSE value_counts(where(df, "archetype", archetype), "cmc")]

\* line 686
archetype_analysis(df) == Cardinality(unique(df, "archetype")) > 1

\* lines 659-702: the summary, a dict; the keys most_common_cards_<A> and
\* mana_curve_<A> are the entries of per_archetype[A]
analysis_keys(df) ==
    {"most_common_cards", "color_distribution", "type_distribution"}
    \cup (IF "cmc" \in columns(df) THEN {"mana_curve"} ELSE {})
    \cup (IF "rarity" \in columns(df) THEN {"rarity_distribution"} ELSE {})
    \cup (IF archetype_analysis(df) THEN {"archetype_distribution", "per_archetype"} ELSE {})

analysis(df) ==
    [key \in analysis_keys(df) |->
        CASE key = "most_common_cards" -> head(value_counts(df, "card_name"), 20)
          [] key = "color_distribution" -> value_counts(df, "colors")
          [] key = "type_distribution" -> value_counts(df, "main_type")
          [] key = "mana_curve" -> value_counts(df, "cmc")
          [] key = "rarity_distribution" -> value_counts(df, "rarity")
          [] key = "archetype_distribution" -> archetype_counts(df)
          [] OTHER -> [a \in unique(df, "archetype") |-> archetype_metrics(df, a)]]

\* frame_analysis with a guard for the frame of no records: an empty summary
\* is returned
frame_analysis_guarded(df) ==
    IF df = <<>> THEN [status |-> "ok", df |-> <<>>, analysis |-> <<>>]
    ELSE [status |-> "ok", df |-> df, analysis |-> analysis(df)]

\* lines 621-704.  status: "ok", or "KeyError" when there is no record: the
\* frame of no records has no column, and line 662 asks for card_name
frame_analysis(df) ==
    IF df = <<>> THEN [status |-> "KeyError", df |-> <<>>, analysis |-> <<>>]
    ELSE [status |-> "ok", df |-> df, analysis |-> analysis(df)]

analyze_drafts(decks) == frame_analysis(with_main_type(card_records(decks)))

\* ------------------------------------------------------------------ inputs
IdsOf(rarities) == SelectSeq([i \in CardIds |-> i], LAMBDA c : CardDB[c].rarity \in rarities)

\* self.cards_in_set after load_set_data: the first commons, uncommons and
\* rares/mythics of CardDB, as many of each as the shape says
catalog_of(shape) ==
       Take(IdsOf({"common"}), shape[1])
    \o Take(IdsOf({"uncommon"}), shape[2])
    \o Take(IdsOf({"rare", "mythic"}), shape[3])

FullCatalog == catalog_of(<<11, 4, 2>>)

Catalogs ==
    {catalog_of(sh) : sh \in {<<11, 4, 2>>, <<10, 3, 1>>, <<9, 4, 2>>,
                              <<11, 2, 2>>, <<11, 4, 0>>, <<0, 4, 2>>, <<0, 0, 0>>}}

PatternPool(len, start, step) ==
    [i \in 1..len |-> ((start + (i - 1) * step) % Len(CardDB)) + 1]

BlockPool(a, na, b, nb) == Repeat(a, na) \o Repeat(b, nb)

\* 18 playable cards for W-B with 15 W and 7 B symbols
SymbolPool == Repeat(2, 7) \o <<1>> \o Repeat(6, 3) \o <<5>> \o Repeat(10, 6)

\* the cards the block pools are made of
BlockCards == {1, 6, 10, 11, 12, 13, 15, 16}

PoolInputs ==
         {PatternPool(len, start, step) :
             len \in {0, 1, 2, 5, 22, 23, 24, MaxPoolLen},
             start \in 0..(Len(CardDB) - 1), step \in {1, 3, 7}}
    \cup {BlockPool(a, sh[1], b, sh[2]) :
             a \in BlockCards, b \in BlockCards,
             sh \in {<<23, 5>>, <<12, 16>>, <<10, 8>>, <<MaxPoolLen, 3>>}}
    \cup {SymbolPool}

ArchInputs ==
    {AUTO, <<"W", "B">>, <<"U", "R">>, <<"R", "W">>, <<"W", "U">>, <<"R", "G">>,
     <<"W", "B", "G">>, <<"U", "B", "R">>, MONO_ \o <<"R">>, MONO_ \o <<"G">>,
     FIVE_C, <<"U", "W">>, <<"X", "Y", "Z">>, <<>>, MONO_ \o <<"X">>, MONO_,
     MONO_ \o <<"W", "U">>}

ColorInputs == {"W", "U", "B", "R", "G", "C", "", "colorless", "w", "_"}

DistInputs ==
    {<<>>,
     << <<(<<"W", "B">>), 500>>, <<(<<"U", "R">>), 300>> >>,
     << <<(<<"W", "B">>), 500>>, <<(<<"U", "R">>), 491>> >>,
     << <<(MONO_ \o <<"R">>), 1000>> >>}

\* lines 609-616: the deck of run i, built from a given pool
run_deck(pool, archetype, i) ==
    LET b == build_deck(pool, archetype)
    IN Tuple([k \in 1..Len(b.deck) |-> Tagged(b.deck[k], archetype, i)])

\* the pools and archetypes of the runs a batch is made of
RunInputs ==
    {[pool |-> p, archetype |-> a] :
        p \in {<<8>>, <<8, 11>>, <<1>>, <<15, 12>>, PatternPool(MaxPoolLen, 0, 1)},
        a \in {MONO_ \o <<"R">>, <<"W", "B">>, <<"U", "R">>, AUTO, FIVE_C}}

batch_of(runs) ==
    Tuple([i \in 1..Len(runs) |-> run_deck(runs[i].pool, runs[i].archetype, i - 1)])

\* decks that do not come from build_deck: a card whose colors are listed in
\* another order, catalog basic lands, entries without colors, type or tags
OtherDecks ==
    {<<CardDB[15], [CardDB[15] EXCEPT !.name = "Izzet Charm", !.colors = <<"U", "R">>]>>,
     <<[name |-> "Wastes", type_line |-> TBasicLand],
       [CardDB[11] EXCEPT !.name = "Plains", !.type_line = TBasicLand],
       [name |-> "Hidden Grotto", type_line |-> TLand],
       [name |-> "Goblin Token"],
       CardDB[7]>>}

BatchInputs ==
         {batch_of(runs) : runs \in UNION {[1..n -> RunInputs] : n \in 0..MaxBatch}}
    \cup {<<d>> : d \in OtherDecks}
    \cup {<<d, run_deck(<<8>>, <<"U", "R">>, 1)>> : d \in OtherDecks}

\* ------------------------------------------------------------------- state
VARIABLES
    cards_in_set,   \* self.cards_in_set: the catalog
    rng,            \* the state of the random module's generator
    sealed_pool,    \* the pool generate_sealed_pool returned last
    calls,          \* the number of method calls made
    call,           \* the method call in progress, with its arguments
    ret,            \* the last finished call and what it returned
    catalog_writes  \* the (card, field) written on catalog records since load

vars == <<cards_in_set, rng, sealed_pool, calls, call, ret, catalog_writes>>

Idle == [op |-> "idle"]
NoRet == [op |-> "none"]

BuildCalls ==
    {[op |-> "build_deck", pool |-> p, archetype |-> a] :
        p \in PoolInputs, a \in ArchInputs}

LandCalls == {[op |-> "basic_land_name", color |-> c] : c \in ColorInputs}

PoolCall == [op |-> "generate_sealed_pool"]

SimCalls ==
    {[op |-> "simulate_drafts", num_drafts |-> n, archetype |-> a,
      archetype_distribution |-> d] :
        n \in 0..MaxDrafts, a \in {AUTO, MONO_ \o <<"G">>}, d \in DistInputs}

AnalyzeCalls == {[op |-> "analyze_drafts", decks |-> b] : b \in BatchInputs}

\* ----------------------------------------------------------------- actions
BuildDeck ==
    /\ call.op = "build_deck"
    /\ LET b == build_deck(call.pool, call.archetype)
       IN ret' = [op |-> "build_deck", pool |-> call.pool,
                  archetype |-> call.archetype, status |-> b.status,
                  deck |-> b.deck, primary_colors |-> b.primary_colors,
                  n_selected |-> b.n_selected,
                  initial_creatures |-> b.initial_creatures,
                  base_lands |-> b.base_lands]
    /\ catalog_writes' = catalog_writes \cup build_writes(call.pool)
    /\ call' = Idle
    /\ calls' = calls + 1
    /\ UNCHANGED <<cards_in_set, rng, sealed_pool>>

BasicLandName ==
    /\ call.op = "basic_land_name"
    /\ ret' = [op |-> "basic_land_name", color |-> call.color,
               status |-> "ok", name |-> basic_land_name(call.color)]
    /\ call' = Idle
    /\ calls' = calls + 1
    /\ UNCHANGED <<cards_in_set, rng, sealed_pool, catalog_writes>>

GenerateSealedPool ==
    /\ call.op = "generate_sealed_pool"
    /\ LET g == generate_sealed_pool(cards_in_set, rng)
       IN /\ ret' = [op |-> "generate_sealed_pool", status |-> g.status,
                     pool |-> g.pool]
          /\ rng' = g.rng
          /\ sealed_pool' = IF g.status = "ok" THEN g.pool ELSE sealed_pool
    /\ call' = Idle
    /\ calls' = calls + 1
    /\ UNCHANGED <<cards_in_set, catalog_writes>>

SimulateDrafts ==
    /\ call.op = "simulate_drafts"
    /\ \E r \in {simulate_drafts(cards_in_set, call.num_drafts, call.archetype,
                                 call.archetype_distribution, rng)} :
          /\ ret' = [op |-> "simulate_drafts", num_drafts |-> call.num_drafts,
                     archetype |-> call.archetype,
                     archetype_distribution |-> call.archetype_distribution,
                     status |-> r.status, all_decks |-> r.all_decks]
          /\ rng' = r.rng
          /\ catalog_writes' = catalog_writes \cup r.writes
    /\ call' = Idle
    /\ calls' = calls + 1
    /\ UNCHANGED <<cards_in_set, sealed_pool>>

AnalyzeDrafts ==
    /\ call.op = "analyze_drafts"
    /\ \E r \in {analyze_drafts(call.decks)} :
          ret' = [op |-> "analyze_drafts", decks |-> call.decks,
                  status |-> r.status, df |-> r.df, analysis |-> r.analysis]
    /\ call' = Idle
    /\ calls' = calls + 1
    /\ UNCHANGED <<cards_in_set, rng, sealed_pool, catalog_writes>>

\* the caller's next call, as main() makes them one after the other
InvokeGenerate ==
    /\ call = Idle
    /\ calls < MaxCalls
    /\ call' = PoolCall
    /\ UNCHANGED <<cards_in_set, rng, sealed_pool, calls, ret, catalog_writes>>

\* the caller builds a deck from the pool it generated last
InvokeBuild ==
    /\ call = Idle
    /\ calls < MaxCalls
    /\ \E a \in {AUTO, <<"W", "B">>, MONO_ \o <<"X">>} :
          call' = [op |-> "build_deck", pool |-> sealed_pool, archetype |-> a]
    /\ UNCHANGED <<cards_in_set, rng, sealed_pool, calls, ret, catalog_writes>>

InvokeBasicLandName ==
    /\ call = Idle
    /\ calls < MaxCalls
    /\ \E c \in {"W", "C"} : call' = [op |-> "basic_land_name", color |-> c]
    /\ UNCHANGED <<cards_in_set, rng, sealed_pool, calls, ret, catalog_writes>>

InvokeSimulate ==
    /\ call = Idle
    /\ calls < MaxCalls
    /\ \E d \in DistInputs :
          call' = [op |-> "simulate_drafts", num_drafts |-> 1, archetype |-> AUTO,
                   archetype_distribution |-> d]
    /\ UNCHANGED <<cards_in_set, rng, sealed_pool, calls, ret, catalog_writes>>

\* lines 770-778: the caller analyzes the decks it got last
InvokeAnalyze ==
    /\ call = Idle
    /\ calls < MaxCalls
    /\ ret.op \in {"simulate_drafts", "build_deck"}
    /\ ret.status = "ok"
    /\ call' = [op |-> "analyze_drafts",
                decks |-> IF ret.op = "build_deck" THEN <<ret.deck>> ELSE ret.all_decks]
    /\ UNCHANGED <<cards_in_set, rng, sealed_pool, calls, ret, catalog_writes>>

\* ---------------------------------------------------------- specifications
InitBuild ==
    /\ cards_in_set = FullCatalog
    /\ rng = 0
    /\ sealed_pool = <<>>
    /\ calls = 0
    /\ call \in BuildCalls \cup LandCalls
    /\ ret = NoRet
    /\ catalog_writes = {}

NextBuild == BuildDeck \/ BasicLandName

SpecBuild == InitBuild /\ [][NextBuild]_vars

InitPool ==
    /\ cards_in_set \in Catalogs
    /\ rng \in 0..(RandMod - 1)
    /\ sealed_pool = <<>>
    /\ calls = 0
    /\ call = PoolCall
    /\ ret = NoRet
    /\ catalog_writes = {}

NextPool == GenerateSealedPool \/ InvokeGenerate

SpecPool == InitPool /\ [][NextPool]_vars

InitSim ==
    /\ cards_in_set \in {FullCatalog, catalog_of(<<9, 4, 2>>)}
    /\ rng \in 0..(RandMod - 1)
    /\ sealed_pool = <<>>
    /\ calls = 0
    /\ call \in SimCalls
    /\ ret = NoRet
    /\ catalog_writes = {}

NextSim == SimulateDrafts \/ InvokeAnalyze \/ AnalyzeDrafts

SpecSim == InitSim /\ [][NextSim]_vars

InitAnalyze ==
    /\ cards_in_set = FullCatalog
    /\ rng = 0
    /\ sealed_pool = <<>>
    /\ calls = 0
    /\ call \in AnalyzeCalls
    /\ ret = NoRet
    /\ catalog_writes = {}

NextAnalyze == AnalyzeDrafts

SpecAnalyze == InitAnalyze /\ [][NextAnalyze]_vars

Init ==
    /\ cards_in_set \in {FullCatalog, <<>>}
    /\ rng \in 0..MaxSeed
    /\ sealed_pool = <<>>
    /\ calls = 0
    /\ call = Idle
    /\ ret = NoRet
    /\ catalog_writes = {}

Next ==
    \/ BuildDeck
    \/ BasicLandName
    \/ GenerateSealedPool
    \/ SimulateDrafts
    \/ AnalyzeDrafts
    \/ InvokeGenerate
    \/ InvokeBuild
    \/ InvokeBasicLandName
    \/ InvokeSimulate
    \/ InvokeAnalyze

Spec == Init /\ [][Next]_vars

\* ------------------------------------------------------------- properties
BuiltOk == ret.op = "build_deck" /\ ret.status = "ok"

\* a generated basic land has a name and a type line and nothing else
Generated(entry) == "colors" \notin DOMAIN entry

NumSelected(deck) == Cardinality({i \in 1..Len(deck) : ~Generated(deck[i])})

LandNames == {"Plains", "Island", "Swamp", "Mountain", "Forest", "Wastes"}

LandOf == [c \in {"W", "U", "B", "R", "G"} |->
              CASE c = "W" -> "Plains" [] c = "U" -> "Island" [] c = "B" -> "Swamp"
                [] c = "R" -> "Mountain" [] c = "G" -> "Forest"]

LandsOf(deck, c) ==
    Cardinality({i \in 1..Len(deck) : Generated(deck[i]) /\ deck[i].name = LandOf[c]})

SymbolsIn(deck, c) ==
    SumSeq([i \in 1..Len(deck) |->
               IF Generated(deck[i]) THEN 0 ELSE Count(deck[i].mana_cost, c)])

Abs(n) == IF n < 0 THEN -n ELSE n

\* num / den rounded to the nearest integer, a half to the even one
Round(num, den) ==
    LET q == num \div den
        r == num % den
    IN IF 2 * r < den THEN q
       ELSE IF 2 * r > den THEN q + 1
       ELSE IF q % 2 = 0 THEN q ELSE q + 1

PoolNames(pool) == {CardDB[pool[i]].name : i \in 1..Len(pool)}

\* C1: a deck that build_deck returns has 40 entries: s <= 23 copies of pool
\* cards, then 40 - s generated basic lands whose counts per primary color sum
\* to 40 - s; a call that fails returns no deck
C1_DeckOfForty ==
    ret.op = "build_deck" =>
        IF ret.status = "ok"
        THEN LET deck == ret.deck
                 s == NumSelected(deck)
                 pc == ret.primary_colors
             IN /\ Len(deck) = 40
                /\ s <= 23
                /\ \A i \in 1..s : /\ ~Generated(deck[i])
                                   /\ deck[i].name \in PoolNames(ret.pool)
                /\ \A i \in (s + 1)..40 : /\ Generated(deck[i])
                                          /\ deck[i].type_line = "Basic Land"
                /\ SumSeq([k \in 1..Len(pc) |-> LandsOf(deck, pc[k])]) = 40 - s
        ELSE ret.deck = <<>>

\* a deck built from a pool with fewer than 23 playable cards
C1_Witness ==
    /\ BuiltOk
    /\ NumSelected(ret.deck) \in 1..22
    /\ Len(ret.deck) = 40

PlayableCreatures ==
    Cardinality({i \in 1..Len(ret.pool) :
        /\ IsCreature(CardDB[ret.pool[i]])
        /\ playable(CardDB[ret.pool[i]], ret.primary_colors)})

\* C2: when the playable cards of the pool hold at least min_creatures
\* creatures, so does the deck
C2_MinCreatures ==
    (BuiltOk /\ PlayableCreatures >= min_creatures(ret.archetype))
        => creature_count(ret.deck) >= min_creatures(ret.archetype)

\* the first 23 cards were short of creatures and creatures were pulled in
C2_Witness ==
    /\ BuiltOk
    /\ PlayableCreatures >= min_creatures(ret.archetype)
    /\ ret.initial_creatures < min_creatures(ret.archetype)
    /\ creature_count(ret.deck) >= min_creatures(ret.archetype)

\* C3: no pool card whose type line contains Land is among the selected
\* cards: the only lands of a deck are the generated basic lands
C3_SelectedAreNonLands ==
    BuiltOk => \A i \in 1..Len(ret.deck) :
                   IsLand(ret.deck[i]) => Generated(ret.deck[i])

TwoColorCase ==
    /\ BuiltOk
    /\ ret.archetype \in TwoColorCodes
    /\ SymbolsIn(ret.deck, ret.archetype[1]) + SymbolsIn(ret.deck, ret.archetype[2]) > 0

\* C4 as stated: for a two-color archetype with a and b symbols of its colors
\* in the selected cards, a + b > 0, the lands of the first color are within
\* 1 of round(17 * a / (a + b))
C4_LandsOf17 ==
    TwoColorCase =>
        LET a == SymbolsIn(ret.deck, ret.archetype[1])
            b == SymbolsIn(ret.deck, ret.archetype[2])
        IN Abs(LandsOf(ret.deck, ret.archetype[1]) - Round(17 * a, a + b)) <= 1

\* C4 amended: the lands of the first color are within 1 of
\* round(L * a / (a + b)), L = 40 - s being the number of lands of the deck
C4_LandsOfNeeded ==
    TwoColorCase =>
        LET a == SymbolsIn(ret.deck, ret.archetype[1])
            b == SymbolsIn(ret.deck, ret.archetype[2])
            L == 40 - NumSelected(ret.deck)
        IN Abs(LandsOf(ret.deck, ret.archetype[1]) - Round(L * a, a + b)) <= 1

\* a two-color deck of fewer than 23 selected cards with symbols of both colors
C4_Witness ==
    /\ TwoColorCase
    /\ NumSelected(ret.deck) < 23
    /\ SymbolsIn(ret.deck, ret.archetype[1]) > 0
    /\ SymbolsIn(ret.deck, ret.archetype[2]) > 0

\* C5 as stated: build_deck on an empty pool fails and returns no deck
C5_EmptyPoolFails ==
    (ret.op = "build_deck" /\ ret.pool = <<>>)
        => (ret.status # "ok" /\ ret.deck = <<>>)

\* C5 amended: build_deck on an empty pool returns a deck of 40 generated
\* basic lands, except for a code MONO_... whose last character is none of
\* W, U, B, R, G, where it fails and returns no deck
C5_EmptyPoolDeck ==
    (ret.op = "build_deck" /\ ret.pool = <<>>) =>
        IF /\ startswith(ret.archetype, MONO_)
           /\ ret.archetype[Len(ret.archetype)] \notin {"W", "U", "B", "R", "G"}
        THEN ret.status = "KeyError" /\ ret.deck = <<>>
        ELSE /\ ret.status = "ok"
             /\ Len(ret.deck) = 40
             /\ \A i \in 1..40 : /\ Generated(ret.deck[i])
                                 /\ ret.deck[i].name \in LandNames

\* a deck returned for an empty pool and a three-color code
C5_Witness ==
    /\ BuiltOk
    /\ ret.pool = <<>>
    /\ ret.archetype \in ThreeColorCodes
    /\ Len(ret.deck) = 40

Unrecognized(archetype) ==
    /\ archetype # AUTO
    /\ archetype \notin TwoColorCodes \cup ThreeColorCodes
    /\ archetype \notin {MONO_ \o <<c>> : c \in {"W", "U", "B", "R", "G"}}
    /\ archetype # FIVE_C

\* C6: for a code that is not recognized build_deck does not fail and
\* returns the deck it returns for "auto" on the same pool
C6_UnrecognizedIsAuto ==
    (ret.op = "build_deck" /\ Unrecognized(ret.archetype))
        => /\ ret.status = "ok"
           /\ ret.deck = build_deck(ret.pool, AUTO).deck

DistCodes(dist) == {dist[i][1] : i \in 1..Len(dist)}

\* C7: with a distribution, every entry of every deck of the batch is tagged
\* with a code of the distribution
C7_TagsFromDistribution ==
    (/\ ret.op = "simulate_drafts"
     /\ ret.status = "ok"
     /\ ret.archetype_distribution # <<>>)
        => \A d \in 1..Len(ret.all_decks) :
               \A k \in 1..Len(ret.all_decks[d]) :
                   ret.all_decks[d][k].archetype \in DistCodes(ret.archetype_distribution)

Distinct(s) == \A i, j \in 1..Len(s) : i # j => s[i] # s[j]

Rarities(s) == {CardDB[s[i]].rarity : i \in 1..Len(s)}

\* C8: a returned pool is six packs of 15: 10 distinct commons, 3 distinct
\* uncommons, a rare or mythic, and a card of the catalog
C8_PoolShape ==
    (ret.op = "generate_sealed_pool" /\ ret.status = "ok") =>
        /\ Len(ret.pool) = 90
        /\ Range(ret.pool) \subseteq Range(cards_in_set)
        /\ \A p \in 0..5 :
              LET pack == SubSeq(ret.pool, 15 * p + 1, 15 * p + 15)
              IN /\ Distinct(SubSeq(pack, 1, 10))
                 /\ Rarities(SubSeq(pack, 1, 10)) = {"common"}
                 /\ Distinct(SubSeq(pack, 11, 13))
                 /\ Rarities(SubSeq(pack, 11, 13)) = {"uncommon"}
                 /\ CardDB[pack[14]].rarity \in {"rare", "mythic"}
                 /\ pack[15] \in Range(cards_in_set)

\* a second pool generated from a catalog with spare cards of every rarity
C8_Witness ==
    /\ ret.op = "generate_sealed_pool"
    /\ ret.status = "ok"
    /\ calls = 2
    /\ Len(cards_in_set) = 17
    /\ Len(ret.pool) = 90

ShortStock ==
    \/ cards_in_set = <<>>
    \/ Len(ByRarity(cards_in_set, {"common"})) < 10
    \/ Len(ByRarity(cards_in_set, {"uncommon"})) < 3
    \/ Len(ByRarity(cards_in_set, {"rare", "mythic"})) < 1

\* C9: generate_sealed_pool fails and returns no pool when the catalog is
\* empty or short of commons, uncommons or rares; a pool it returns has 90
\* cards
C9_ShortStockFails ==
    ret.op = "generate_sealed_pool" =>
        /\ ShortStock => (ret.status = "ValueError" /\ ret.pool = <<>>)
        /\ ret.status = "ok" => Len(ret.pool) = 90

\* a call that failed on a catalog that is not empty
C9_Witness ==
    /\ ret.op = "generate_sealed_pool"
    /\ cards_in_set # <<>>
    /\ ShortStock
    /\ ret.status = "ValueError"

\* C10: basic_land_name gives Plains, Island, Swamp, Mountain, Forest for W,
\* U, B, R, G and Wastes for anything else, and every generated land of a
\* deck has one of these six names
C10_LandNames ==
    /\ ret.op = "basic_land_name" =>
          /\ ret.name = (IF ret.color \in DOMAIN LandOf THEN LandOf[ret.color]
                         ELSE "Wastes")
          /\ ret.name \in LandNames
    /\ BuiltOk => \A i \in 1..Len(ret.deck) :
                      Generated(ret.deck[i]) => ret.deck[i].name \in LandNames

\* basic_land_name applied to something that is no color
C10_Witness ==
    /\ ret.op = "basic_land_name"
    /\ ret.color \notin {"W", "U", "B", "R", "G"}
    /\ ret.name = "Wastes"

\* C11: when build_deck returns a deck, the primary colors are 1, 2, 3 or 5
\* pairwise distinct letters of W, U, B, R, G, and never none
C11_PrimaryColors ==
    BuiltOk =>
        /\ Len(ret.primary_colors) \in {1, 2, 3, 5}
        /\ Distinct(ret.primary_colors)
        /\ Range(ret.primary_colors) \subseteq {"W", "U", "B", "R", "G"}

\* "auto" on a pool that holds no colored card at all
C11_Witness ==
    /\ BuiltOk
    /\ ret.archetype = AUTO
    /\ ret.pool # <<>>
    /\ \A i \in 1..Len(ret.pool) : CardDB[ret.pool[i]].colors = <<>>
    /\ Len(ret.primary_colors) = 2

Analyzed == ret.op = "analyze_drafts"
AnalyzedOk == Analyzed /\ ret.status = "ok"

\* the entries of a batch that are not named as a basic land, in deck order
KeptEntries(decks) ==
    Flatten([d \in 1..Len(decks) |->
                SelectSeq(decks[d], LAMBDA e : e.name \notin LandNames)])

\* the labels of a top-k metric
Labels(top) == DOMAIN top.counts \cup top.tied

\* the number of entries of a top-k metric
Entries(top) == Cardinality(DOMAIN top.counts) + top.slots

\* C12: analyze_drafts leaves the basic lands out: the flat records are as
\* many as the entries of the batch not named Plains, Island, Swamp, Mountain,
\* Forest or Wastes, and no record and no card label of the summary has one
\* of these names
C12_NoBasicLands ==
    Analyzed =>
        /\ Len(ret.df) = Len(KeptEntries(ret.decks))
        /\ \A i \in 1..Len(ret.df) : ret.df[i].card_name \notin LandNames
        /\ ret.status = "ok" =>
              /\ Labels(ret.analysis.most_common_cards) \cap LandNames = {}
              /\ "per_archetype" \in DOMAIN ret.analysis =>
                    \A a \in DOMAIN ret.analysis.per_archetype :
                        Labels(ret.analysis.per_archetype[a].most_common_cards)
                            \cap LandNames = {}

\* a batch with generated lands, a catalog card named Plains and other cards
C12_Witness ==
    /\ AnalyzedOk
    /\ \E d \in 1..Len(ret.decks) : \E k \in 1..Len(ret.decks[d]) :
           ret.decks[d][k].name = "Plains" /\ "colors" \in DOMAIN ret.decks[d][k]
    /\ \E d \in 1..Len(ret.decks) : \E k \in 1..Len(ret.decks[d]) :
           Generated(ret.decks[d][k]) /\ ret.decks[d][k].name \in LandNames
    /\ Len(ret.df) >= 2

\* a pool whose only card that is no land is common, red and of mana value 2
OneRedCard(pool) ==
    /\ Cardinality({i \in 1..Len(pool) : ~IsLand(CardDB[pool[i]])}) = 1
    /\ \A i \in 1..Len(pool) :
          ~IsLand(CardDB[pool[i]]) =>
              /\ CardDB[pool[i]].rarity = "common"
              /\ CardDB[pool[i]].cmc = 2
              /\ CardDB[pool[i]].colors = <<"R">>

TheRedCard(pool) ==
    CardDB[pool[CHOOSE i \in 1..Len(pool) : ~IsLand(CardDB[pool[i]])]].name

\* C13: for the batch of one MONO_R run on a pool whose only non-land card X
\* is common, red and of mana value 2, the summary has most_common_cards
\* {X: 1}, rarity_distribution {common: 1} and mana_curve {2: 1}
C13_OneCardSummary ==
    \A r \in RunInputs :
        (/\ Analyzed
         /\ r.archetype = MONO_ \o <<"R">>
         /\ OneRedCard(r.pool)
         /\ ret.decks = batch_of(<<r>>))
            => /\ ret.status = "ok"
               /\ ret.analysis.most_common_cards =
                      [counts |-> [n \in {TheRedCard(r.pool)} |-> 1],
                       tied |-> {}, slots |-> 0]
               /\ ret.analysis.rarity_distribution = [x \in {"common"} |-> 1]
               /\ ret.analysis.mana_curve = [x \in {2} |-> 1]

\* C14: two records whose cards have the same set of colors have the same
\* color label, whatever the order of the colors lists
C14_LabelOfColorSet ==
    Analyzed =>
        LET kept == KeptEntries(ret.decks)
        IN \A i, j \in 1..Len(kept) :
               (/\ "colors" \in DOMAIN kept[i]
                /\ "colors" \in DOMAIN kept[j]
                /\ Range(kept[i].colors) = Range(kept[j].colors))
                   => ret.df[i].colors = ret.df[j].colors

\* the archetype codes the decks of a batch carry
DeckArchetypes(decks) ==
    UNION {{get(decks[d][k], "archetype", AUTO) : k \in 1..Len(decks[d])} :
              d \in 1..Len(decks)}

\* C15: the summary has per-archetype metrics exactly when the decks of the
\* batch carry two or more archetype codes, and then it has, for every code
\* of the batch, most_common_cards of at most 10 entries and mana_curve
C15_PerArchetypeMetrics ==
    AnalyzedOk =>
        /\ "per_archetype" \in DOMAIN ret.analysis
              <=> Cardinality(DeckArchetypes(ret.decks)) >= 2
        /\ "per_archetype" \in DOMAIN ret.analysis =>
              /\ DOMAIN ret.analysis.per_archetype = DeckArchetypes(ret.decks)
              /\ \A a \in DOMAIN ret.analysis.per_archetype :
                    /\ DOMAIN ret.analysis.per_archetype[a]
                           = {"most_common_cards", "mana_curve"}
                    /\ Entries(ret.analysis.per_archetype[a].most_common_cards) <= 10

C18_RunTags ==
    (ret.op = "simulate_drafts" /\ ret.status = "ok") =>
        /\ Len(ret.all_decks) = ret.num_drafts
        /\ \A d \in 1..Len(ret.all_decks) :
              /\ Len(ret.all_decks[d]) = 40
              /\ \A k \in 1..Len(ret.all_decks[d]) :
                    /\ {"archetype", "draft_number"} \subseteq DOMAIN ret.all_decks[d][k]
                    /\ ret.all_decks[d][k].draft_number = d - 1
                    /\ ret.all_decks[d][k].archetype = ret.all_decks[d][1].archetype

\* two runs of different archetypes
C18_Witness ==
    /\ ret.op = "simulate_drafts"
    /\ ret.status = "ok"
    /\ Len(ret.all_decks) = 2
    /\ ret.all_decks[1][40].archetype # ret.all_decks[2][40].archetype
    /\ Generated(ret.all_decks[1][40])
    /\ ret.all_decks[1][40].draft_number = 0

\* the cards of a pool that have the color
Credit(pool, c) ==
    Cardinality({i \in 1..Len(pool) : c \in Range(CardDB[pool[i]].colors)})

\* among the colors numbered in cands, the first one of the highest count
Best(pool, cands) ==
    CHOOSE i \in cands :
        \A j \in cands :
            \/ Credit(pool, Colors[j]) < Credit(pool, Colors[i])
            \/ (Credit(pool, Colors[j]) = Credit(pool, Colors[i]) /\ j >= i)

TopTwo(pool) ==
    LET a == Best(pool, 1..5)
    IN <<Colors[a], Colors[Best(pool, (1..5) \ {a})]>>

\* C19: with "auto" the primary colors are the two colors that most cards of
\* the pool have, a multicolor card counting for each of its colors, and of
\* colors with equal counts the first in the order W, U, B, R, G
C19_AutoColors ==
    (ret.op = "build_deck" /\ ret.archetype = AUTO)
        => ret.primary_colors = TopTwo(ret.pool)

\* a pool with multicolor cards where colors tie for the second place
C19_Witness ==
    /\ BuiltOk
    /\ ret.archetype = AUTO
    /\ \E i \in 1..Len(ret.pool) : Len(CardDB[ret.pool[i]].colors) > 1
    /\ \E c \in {"W", "U", "B", "R", "G"} :
           /\ c \notin Range(ret.primary_colors)
           /\ Credit(ret.pool, c) = Credit(ret.pool, ret.primary_colors[2])
           /\ Credit(ret.pool, c) > 0

LetterCode(archetype) ==
    /\ Len(archetype) \in {2, 3}
    /\ Distinct(archetype)
    /\ Range(archetype) \subseteq {"W", "U", "B", "R", "G"}

\* C20 as stated: for a code of two or three distinct letters of W, U, B, R,
\* G, in any order, the primary colors are the letters of the code in order
C20_LettersAnyOrder ==
    (ret.op = "build_deck" /\ LetterCode(ret.archetype))
        => ret.primary_colors = ret.archetype

\* C20 amended: for the twenty codes build_deck lists the primary colors are
\* the letters of the code in order; any other code of two or three letters
\* is resolved as "auto"
C20_ListedCodes ==
    (ret.op = "build_deck" /\ LetterCode(ret.archetype)) =>
        IF ret.archetype \in
               {<<"W", "U">>, <<"U", "B">>, <<"B", "R">>, <<"R", "G">>, <<"G", "W">>,
                <<"W", "B">>, <<"U", "R">>, <<"B", "G">>, <<"R", "W">>, <<"G", "U">>,
                <<"W", "U", "B">>, <<"U", "B", "R">>, <<"B", "R", "G">>,
                <<"R", "G", "W">>, <<"G", "W", "U">>, <<"W", "B", "G">>,
                <<"U", "R", "W">>, <<"B", "G", "U">>, <<"R", "W", "B">>,
                <<"G", "U", "R">>}
        THEN ret.primary_colors = ret.archetype
        ELSE ret.primary_colors = TopTwo(ret.pool)

\* a listed code whose letters are not in the order W, U, B, R, G
C20_Witness ==
    /\ BuiltOk
    /\ ret.archetype = <<"R", "W">>
    /\ ret.primary_colors = <<"R", "W">>
    /\ ret.pool # <<>>

\* the pool cards of a deck, in deck order
Selected(deck) == SelectSeq(deck, LAMBDA e : ~Generated(e))

SharesColor(card, pc) == Range(card.colors) \cap Range(pc) # {}

\* the points for sharing a color with the deck and for having its colors
ColorPoints(card, pc, exact) ==
    (IF SharesColor(card, pc) THEN 5 ELSE 0) + (IF exact THEN 3 ELSE 0)

\* the points that do not depend on the deck's colors
CardPoints(card) ==
      (IF card.colors = <<>> /\ ~InTypeLine("Land", card.type_line) THEN 3 ELSE 0)
    + (IF card.rarity = "uncommon" THEN 1
       ELSE IF card.rarity = "rare" THEN 2
       ELSE IF card.rarity = "mythic" THEN 3 ELSE 0)
    + (IF card.cmc <= 3 THEN 2 ELSE IF card.cmc <= 5 THEN 1 ELSE 0)
    + (IF InTypeLine("Creature", card.type_line) THEN 1 ELSE 0)
    + (IF \/ InTypeLine("Removal", card.type_line)
          \/ \E t \in {"destroy", "exile", "damage", "-", "fight"} :
                 t \in card.oracle_text
       THEN 2 ELSE 0)

HasProfile(archetype) == archetype \in DOMAIN archetype_weights

KeywordPoints(card, archetype) ==
    IF HasProfile(archetype)
    THEN Cardinality({k \in archetype_weights[archetype].keywords :
                         k \in card.oracle_text})
    ELSE 0

\* the factor of the profile in tenths, 10 without a profile
Weight(card, archetype) ==
    IF ~HasProfile(archetype) THEN 10
    ELSE IF InTypeLine("Creature", card.type_line)
         THEN archetype_weights[archetype].creature_weight
         ELSE archetype_weights[archetype].noncreature_weight

\* C21: the score of a card is the sum of the points of the formula (5 for a
\* shared color, 3 for exactly the deck's colors, 3 for a colorless non-land,
\* the rarity bonus, 2 or 1 for the mana value, 1 for a creature, 2 for
\* removal), plus one per profile keyword in its text, the total multiplied
\* by the profile's creature or noncreature weight; the product is the
\* floating-point one, at most one unit in the last place from the decimal
C21_ScoreFormula ==
    BuiltOk =>
        \A i \in 1..Len(Selected(ret.deck)) :
            LET e == Selected(ret.deck)[i]
                pc == ret.primary_colors
                n == ColorPoints(e, pc, Range(e.colors) = Range(pc))
                     + CardPoints(e) + KeywordPoints(e, ret.archetype)
            IN /\ e.score.tenths = n * Weight(e, ret.archetype)
               /\ e.score.ulp \in {-1, 0, 1}
               /\ (e.score.ulp # 0) => Weight(e, ret.archetype) # 10

\* a deck built with a profile whose weights are not 1: it holds a card with
\* a keyword of the profile, a removal card, a card of a higher rarity and a
\* card of each mana value bracket
C21_Witness ==
    /\ BuiltOk
    /\ HasProfile(ret.archetype)
    /\ \E i \in 1..Len(Selected(ret.deck)) :
           LET e == Selected(ret.deck)[i]
           IN /\ KeywordPoints(e, ret.archetype) > 0
              /\ Weight(e, ret.archetype) \notin {10}
              /\ e.score.tenths > 0
    /\ \E i \in 1..Len(Selected(ret.deck)) :
           /\ Selected(ret.deck)[i].rarity = "rare"
           /\ Selected(ret.deck)[i].cmc \in 4..5
    /\ \E i \in 1..Len(Selected(ret.deck)) :
           /\ "damage" \in Selected(ret.deck)[i].oracle_text
           /\ Selected(ret.deck)[i].cmc <= 3

\* the card has a color, and its colors are some but not all of the primary
\* colors
StrictSubset(card, pc) ==
    /\ card.colors # <<>>
    /\ Range(card.colors) \subseteq Range(pc)
    /\ Range(card.colors) # Range(pc)

\* the score of a card that takes the points of a shared color and, when
\* exact, those of the exact match
ScoreWith(e, pc, archetype, exact) ==
    (ColorPoints(e, pc, exact) + CardPoints(e) + KeywordPoints(e, archetype))
        * Weight(e, archetype)

\* C22 as stated: a card whose colors are a strict subset of the primary
\* colors (a mono-W card in a WB deck) takes both the 5 points of a shared
\* color and the 3 points of the exact match
C22_SubsetGetsBoth ==
    BuiltOk =>
        \A i \in 1..Len(Selected(ret.deck)) :
            LET e == Selected(ret.deck)[i]
            IN StrictSubset(e, ret.primary_colors) =>
                   e.score.tenths
                       = ScoreWith(e, ret.primary_colors, ret.archetype, TRUE)

\* C22 amended: a card takes both the 5 and the 3 points exactly when the set
\* of its colors is the set of the primary colors; a card whose colors are a
\* strict subset of them takes the 5 points alone
C22_ExactGetsBoth ==
    BuiltOk =>
        \A i \in 1..Len(Selected(ret.deck)) :
            LET e == Selected(ret.deck)[i]
                pc == ret.primary_colors
            IN /\ Range(e.colors) = Range(pc) =>
                      e.score.tenths = ScoreWith(e, pc, ret.archetype, TRUE)
               /\ StrictSubset(e, pc) =>
                      /\ e.score.tenths = ScoreWith(e, pc, ret.archetype, FALSE)
                      /\ e.score.tenths # ScoreWith(e, pc, ret.archetype, TRUE)

\* a WB deck with a mono-W card and a W-B card
C22_Witness ==
    /\ BuiltOk
    /\ ret.primary_colors = <<"W", "B">>
    /\ \E i \in 1..Len(Selected(ret.deck)) :
           /\ Selected(ret.deck)[i].colors = <<"W">>
           /\ StrictSubset(Selected(ret.deck)[i], ret.primary_colors)
    /\ \E i \in 1..Len(Selected(ret.deck)) :
           Selected(ret.deck)[i].colors = <<"W", "B">>

\* the pool card is a land, has no color, or shares a color with the deck
Castable(card, pc) ==
    \/ InTypeLine("Land", card.type_line)
    \/ card.colors = <<>>
    \/ SharesColor(card, pc)

NumCastable(pool, pc) ==
    Cardinality({i \in 1..Len(pool) : Castable(CardDB[pool[i]], pc)})

\* C23: a non-land pool card is playable exactly when it has no color or
\* shares a color with the primary colors: every non-land card of a deck is
\* such a card, and the deck holds 23 of the lands and such cards of the pool,
\* or all of them when they are fewer
C23_PlayableIffShares ==
    BuiltOk =>
        /\ \A i \in 1..Len(Selected(ret.deck)) :
               Castable(Selected(ret.deck)[i], ret.primary_colors)
        /\ NumSelected(ret.deck)
               = Min2(23, NumCastable(ret.pool, ret.primary_colors))
        /\ NumCastable(ret.pool, ret.primary_colors) <= 23 =>
               \A i \in 1..Len(ret.pool) :
                   Castable(CardDB[ret.pool[i]], ret.primary_colors) =>
                       \E k \in 1..Len(Selected(ret.deck)) :
                           Selected(ret.deck)[k].name = CardDB[ret.pool[i]].name

\* a deck of fewer than 23 pool cards from a pool that holds a card of
\* another color, which is left out, and a two-color card with one color of
\* the deck's, which is in
C23_Witness ==
    /\ BuiltOk
    /\ NumSelected(ret.deck) < 23
    /\ \E i \in 1..Len(ret.pool) :
           /\ ~Castable(CardDB[ret.pool[i]], ret.primary_colors)
           /\ \A k \in 1..Len(ret.deck) : ret.deck[k].name # CardDB[ret.pool[i]].name
    /\ \E k \in 1..Len(Selected(ret.deck)) :
           /\ SharesColor(Selected(ret.deck)[k], ret.primary_colors)
           /\ ~(Range(Selected(ret.deck)[k].colors) \subseteq Range(ret.primary_colors))

\* the score of the i-th pool card as the sort compares it
PoolKey(i) ==
    ScoreKey(card_score(CardDB[ret.pool[i]], ret.archetype, ret.primary_colors))

\* the pool position of the k-th selected card: copies of a card are taken
\* from the pool in the pool's order
PoolIdx(sel, k) ==
    CHOOSE i \in 1..Len(ret.pool) :
        /\ CardDB[ret.pool[i]].name = sel[k].name
        /\ Cardinality({j \in 1..i : ret.pool[j] = ret.pool[i]})
               = Cardinality({m \in 1..k : sel[m].name = sel[k].name})

\* the selection is the initial one: it had creatures enough, or every
\* playable card is in it
InitialKept ==
    \/ ret.initial_creatures >= min_creatures(ret.archetype)
    \/ NumCastable(ret.pool, ret.primary_colors) <= 23

\* C24: the initial selection is the first 23 playable cards (all of them
\* when they are fewer than 24) by score descending, cards of equal score in
\* pool order; when it is kept, no playable card left out has a higher score
\* than a selected card, or the same score and an earlier place in the pool
C24_TopByScore ==
    (BuiltOk /\ InitialKept) =>
        LET sel == Selected(ret.deck)
            n == Len(sel)
            at == Tuple([k \in 1..n |-> PoolIdx(sel, k)])
            key == Tuple([i \in 1..Len(ret.pool) |-> PoolKey(i)])
        IN /\ n = Min2(23, NumCastable(ret.pool, ret.primary_colors))
           /\ \A k \in 1..n : ScoreKey(sel[k].score) = key[at[k]]
           /\ \A k \in 1..(n - 1) :
                  \/ key[at[k]] > key[at[k + 1]]
                  \/ key[at[k]] = key[at[k + 1]] /\ at[k] < at[k + 1]
           /\ \A j \in 1..Len(ret.pool) :
                  (Castable(CardDB[ret.pool[j]], ret.primary_colors)
                       /\ j \notin Range(at)) =>
                      \A k \in 1..n :
                          \/ key[j] < key[at[k]]
                          \/ key[j] = key[at[k]] /\ at[k] < j

\* a deck whose initial selection had creatures enough, from a pool of more
\* than 23 playable cards; two selected cards of different names have the
\* same score, and a card with the score of the last selected one has a copy
\* left out
C24_Witness ==
    /\ BuiltOk
    /\ ret.initial_creatures >= min_creatures(ret.archetype)
    /\ NumCastable(ret.pool, ret.primary_colors) > 23
    /\ LET sel == Selected(ret.deck)
       IN /\ \E k \in 1..(Len(sel) - 1) :
                 /\ sel[k].score = sel[k + 1].score
                 /\ sel[k].name # sel[k + 1].name
          /\ \E j \in 1..Len(ret.pool) :
                 /\ Castable(CardDB[ret.pool[j]], ret.primary_colors)
                 /\ PoolKey(j) = ScoreKey(sel[Len(sel)].score)
                 /\ Cardinality({i \in 1..Len(ret.pool) : ret.pool[i] = ret.pool[j]})
                        > Cardinality({k \in 1..Len(sel) :
                                          sel[k].name = CardDB[ret.pool[j]].name})

\* the playable pool positions
CastableAt == {i \in 1..Len(ret.pool) :
                  Castable(CardDB[ret.pool[i]], ret.primary_colors)}

PoolKeys == Tuple([i \in 1..Len(ret.pool) |-> PoolKey(i)])

\* the places of the playable pool positions in the ranking by score
\* descending, pool order among equal scores; 0 for the other positions
Ranks(key, cast) ==
    Tuple([j \in 1..Len(key) |->
        IF j \in cast
        THEN 1 + Cardinality({i \in cast : key[i] > key[j]
                                            \/ (key[i] = key[j] /\ i < j)})
        ELSE 0])

CreatureAt(i) == InTypeLine("Creature", CardDB[ret.pool[i]].type_line)

\* pool positions of the initial selection, its creatures and non-creatures,
\* and the playable creatures ranked after it
InitialAt(rank) == {j \in 1..Len(rank) : rank[j] \in 1..23}
InitialCreaturesAt(rank) == {j \in InitialAt(rank) : CreatureAt(j)}
InitialOthersAt(rank) == InitialAt(rank) \ InitialCreaturesAt(rank)
LaterCreaturesAt(rank) == {j \in 1..Len(rank) : rank[j] > 23 /\ CreatureAt(j)}

\* the number of creatures the substitution adds
NumAdded(rank) ==
    Min2(min_creatures(ret.archetype) - Cardinality(InitialCreaturesAt(rank)),
         Cardinality(LaterCreaturesAt(rank)))

\* the k later creatures of the highest rank
AddedAt(rank, later, k) ==
    {j \in later : Cardinality({i \in later : rank[i] < rank[j]}) < k}

Copies(sel, name) == Cardinality({k \in 1..Len(sel) : sel[k].name = name})
CopiesAt(S, name) == Cardinality({j \in S : CardDB[ret.pool[j]].name = name})

Substituted(sel, key, creatures, others, added, gone) ==
    LET kept == {k \in 1..Len(sel) : ~InTypeLine("Creature", sel[k].type_line)}
    IN /\ ret.initial_creatures = Cardinality(creatures)
       /\ Len(sel) <= 23
       /\ \A c \in CardIds :
              InTypeLine("Creature", CardDB[c].type_line) =>
                  Copies(sel, CardDB[c].name)
                      = CopiesAt(creatures \cup added, CardDB[c].name)
       /\ Cardinality(kept) = Cardinality(others) - gone
       /\ \A k \in kept :
              Copies(sel, sel[k].name) <= CopiesAt(others, sel[k].name)
       /\ \A j \in others :
              Copies(sel, CardDB[ret.pool[j]].name)
                      < CopiesAt(others, CardDB[ret.pool[j]].name)
                  => \A k \in kept : key[j] <= ScoreKey(sel[k].score)

SubstitutedBy(sel, key, rank) ==
    Substituted(sel, key, InitialCreaturesAt(rank), InitialOthersAt(rank),
                AddedAt(rank, LaterCreaturesAt(rank), NumAdded(rank)),
                Min2(NumAdded(rank), Cardinality(InitialOthersAt(rank))))

\* C25: when the initial selection holds c creatures, c below the minimum,
\* the k = min(minimum - c, playable creatures ranked after place 23)
\* highest-ranked later creatures are added and min(k, non-creatures of the
\* initial selection) non-creatures of it are removed, the lowest scores
\* first; no creature of the initial selection is removed, and the selection
\* has at most 23 cards
C25_CreatureSubstitution ==
    (BuiltOk /\ ret.initial_creatures < min_creatures(ret.archetype)) =>
        SubstitutedBy(Selected(ret.deck), PoolKeys, Ranks(PoolKeys, CastableAt))

\* a non-creature of the initial selection was removed and a non-creature of
\* a higher score was kept
LowestRemoved(sel, key, others) ==
    \E j \in others :
        /\ Copies(sel, CardDB[ret.pool[j]].name)
               < CopiesAt(others, CardDB[ret.pool[j]].name)
        /\ \E k \in 1..Len(sel) :
               /\ ~InTypeLine("Creature", sel[k].type_line)
               /\ ScoreKey(sel[k].score) > key[j]

SubstitutionSeen(sel, key, rank) ==
    /\ NumAdded(rank) > 0
    /\ Len(sel) = 23
    /\ LowestRemoved(sel, key, InitialOthersAt(rank))

\* a deck whose initial selection was short of creatures: creatures ranked
\* after place 23 were added, non-creatures were removed, and a non-creature
\* of a higher score than a removed one was kept
C25_Witness ==
    /\ BuiltOk
    /\ ret.initial_creatures < min_creatures(ret.archetype)
    /\ SubstitutionSeen(Selected(ret.deck), PoolKeys, Ranks(PoolKeys, CastableAt))

\* s_c and t: the symbols of a primary color, and of all of them, in the
\* costs of the selected cards
TotalSymbols(deck, pc) == SumSeq([k \in 1..Len(pc) |-> SymbolsIn(deck, pc[k])])

\* the lands a color gets first: floor(L / n) without symbols (all L for one
\* color), floor(L * s_c / t) otherwise
FirstLands(deck, pc, L, c) ==
    IF TotalSymbols(deck, pc) = 0
    THEN IF Len(pc) = 1 THEN L ELSE L \div Len(pc)
    ELSE (L * SymbolsIn(deck, c)) \div TotalSymbols(deck, pc)

SumFirstLands(deck, pc, L) ==
    SumSeq([k \in 1..Len(pc) |-> FirstLands(deck, pc, L, pc[k])])

\* the first primary color of the highest symbol count
TopColor(deck, pc) ==
    pc[CHOOSE i \in 1..Len(pc) :
          /\ \A j \in 1..Len(pc) : SymbolsIn(deck, pc[j]) <= SymbolsIn(deck, pc[i])
          /\ \A j \in 1..(i - 1) : SymbolsIn(deck, pc[j]) # SymbolsIn(deck, pc[i])]

\* the lands of each color once the shortfall has gone to the top color
LandsAsSplit(deck, pc, L) ==
    \A k \in 1..Len(pc) :
        /\ LandsOf(deck, pc[k])
               = FirstLands(deck, pc, L, pc[k])
                 + (IF pc[k] = TopColor(deck, pc)
                    THEN L - SumFirstLands(deck, pc, L) ELSE 0)
        /\ (TotalSymbols(deck, pc) > 0 /\ SymbolsIn(deck, pc[k]) = 0)
               => LandsOf(deck, pc[k]) = 0

\* C26 as stated: every color first gets floor(L / n) lands without symbols
\* and floor(L * s_c / t) lands otherwise; the shortfall then goes to the
\* first color of the highest symbol count, and a color without symbols gets
\* no land when t > 0
C26_FloorThenTopUp ==
    BuiltOk =>
        LET L == 40 - NumSelected(ret.deck)
        IN /\ ret.base_lands = SumFirstLands(ret.deck, ret.primary_colors, L)
           /\ LandsAsSplit(ret.deck, ret.primary_colors, L)

\* C26 amended: the first allocation of a color is int(L * (s_c / t)) in
\* floating point, which is floor(L * s_c / t) or, when L * s_c / t is whole
\* and the color has more than half of the symbols, one less; the shortfall
\* goes to the first color of the highest symbol count, so the deck holds
\* floor(L * s_c / t) lands of a color, plus L minus the sum of the floors for
\* that color, and none of a color without symbols when t > 0
C26_SplitOfLands ==
    BuiltOk =>
        LET L == 40 - NumSelected(ret.deck)
            pc == ret.primary_colors
            t == TotalSymbols(ret.deck, pc)
            top == SymbolsIn(ret.deck, TopColor(ret.deck, pc))
            short == SumFirstLands(ret.deck, pc, L) - ret.base_lands
        IN /\ short \in {0, 1}
           /\ short = 1 => (t > 0 /\ 2 * top > t /\ (L * top) % t = 0)
           /\ LandsAsSplit(ret.deck, pc, L)

\* a deck of two or more colors with symbols of one color alone, whose first
\* allocation is short of the lands needed
C26_Witness ==
    /\ BuiltOk
    /\ Len(ret.primary_colors) >= 2
    /\ TotalSymbols(ret.deck, ret.primary_colors) > 0
    /\ \E k \in 1..Len(ret.primary_colors) :
           /\ SymbolsIn(ret.deck, ret.primary_colors[k]) = 0
           /\ LandsOf(ret.deck, ret.primary_colors[k]) = 0
    /\ ret.base_lands < 40 - NumSelected(ret.deck)
    /\ SymbolsIn(ret.deck, ret.primary_colors[1])
           < SymbolsIn(ret.deck, TopColor(ret.deck, ret.primary_colors))

CopiesInPool(name) ==
    Cardinality({i \in 1..Len(ret.pool) : CardDB[ret.pool[i]].name = name})

\* C27: the selected cards of a deck are a sub-multiset of the pool: the deck
\* holds no more copies of a card among its selected cards than the pool
\* holds, so a creature pulled in by the substitution was not in the initial
\* selection already
C27_SelectedFromPool ==
    BuiltOk =>
        \A c \in CardIds :
            Copies(Selected(ret.deck), CardDB[c].name) <= CopiesInPool(CardDB[c].name)

\* a deck with creatures pulled in from after place 23, and a creature card
\* with several copies in the pool, all of them selected
C27_Witness ==
    /\ BuiltOk
    /\ ret.initial_creatures < min_creatures(ret.archetype)
    /\ NumAdded(Ranks(PoolKeys, CastableAt)) > 0
    /\ \E c \in CardIds :
           /\ InTypeLine("Creature", CardDB[c].type_line)
           /\ CopiesInPool(CardDB[c].name) >= 2
           /\ Copies(Selected(ret.deck), CardDB[c].name) = CopiesInPool(CardDB[c].name)

NumGenerated(deck) == Cardinality({i \in 1..Len(deck) : Generated(deck[i])})

\* C28: the correction of the land count ends: the first allocation is never
\* above the lands needed, so no land has to be removed, and the additions
\* bring the count to the lands needed exactly
C28_LandCorrectionEnds ==
    ret.op = "build_deck" =>
        /\ ret.status # "hang"
        /\ ret.status = "ok" =>
               /\ ret.base_lands <= 40 - ret.n_selected
               /\ NumGenerated(ret.deck) = 40 - ret.n_selected

\* a deck of three colors, all with symbols, whose first allocation was two
\* lands short of the lands needed
C28_Witness ==
    /\ BuiltOk
    /\ Len(ret.primary_colors) = 3
    /\ \A k \in 1..3 : SymbolsIn(ret.deck, ret.primary_colors[k]) > 0
    /\ ret.base_lands = 40 - ret.n_selected - 2
    /\ NumGenerated(ret.deck) = 40 - ret.n_selected

\* the sum of the counts of a tally
RECURSIVE TotalOver(_, _)
TotalOver(tally, labels) ==
    IF labels = {} THEN 0
    ELSE LET l == CHOOSE l \in labels : TRUE
         IN tally[l] + TotalOver(tally, labels \ {l})

Total(tally) == TotalOver(tally, DOMAIN tally)

\* the count of a label in a tally, 0 when the tally has no such label
CountIn(tally, l) == IF l \in DOMAIN tally THEN tally[l] ELSE 0

\* the sum over the archetypes of their counts of one mana value
RECURSIVE CurveTotal(_, _, _)
CurveTotal(per, archetypes, v) ==
    IF archetypes = {} THEN 0
    ELSE LET a == CHOOSE a \in archetypes : TRUE
         IN CountIn(per[a]["mana_curve"], v) + CurveTotal(per, archetypes \ {a}, v)

\* C29: the tallies of analyze_drafts conserve the records: for a batch that
\* simulate_drafts built, with a flat record at least, the counts of
\* color_distribution, type_distribution, mana_curve and rarity_distribution
\* each sum to the number of flat records; when the per-archetype mana curves
\* are present, their counts of a mana value sum to its count in mana_curve
C29_TalliesConserve ==
    AnalyzedOk =>
        LET n == Len(KeptEntries(ret.decks))
            a == ret.analysis
        IN /\ n >= 1
           /\ \A key \in {"color_distribution", "type_distribution",
                          "mana_curve", "rarity_distribution"} :
                  key \in DOMAIN a /\ Total(a[key]) = n
           /\ "per_archetype" \in DOMAIN a =>
                  /\ \A v \in DOMAIN a["mana_curve"] :
                         CurveTotal(a["per_archetype"], DOMAIN a["per_archetype"], v)
                             = a["mana_curve"][v]
                  /\ \A x \in DOMAIN a["per_archetype"] :
                         DOMAIN a["per_archetype"][x]["mana_curve"]
                             \subseteq DOMAIN a["mana_curve"]

\* the summary of two decks of simulate_drafts with different archetypes:
\* a mana value has cards in both, and a card has two records
C29_Witness ==
    /\ AnalyzedOk
    /\ "per_archetype" \in DOMAIN ret.analysis
    /\ Cardinality(DOMAIN ret.analysis["mana_curve"]) >= 2
    /\ \E v \in DOMAIN ret.analysis["mana_curve"] :
           \A x \in DOMAIN ret.analysis["per_archetype"] :
               CountIn(ret.analysis["per_archetype"][x]["mana_curve"], v) >= 1
    /\ \E i, j \in 1..Len(ret.df) : i # j /\ ret.df[i].card_name = ret.df[j].card_name

\* C30: analyze_drafts fails on a batch that yields no flat record, the batch
\* of no deck and the batches whose decks hold basic lands alone: it raises
\* an error and returns no summary; a summary that is returned counts a card
C30_NoRecordFails ==
    Analyzed =>
        /\ KeptEntries(ret.decks) = <<>> =>
               /\ ret.status = "KeyError"
               /\ ret.analysis = <<>>
        /\ ret.status = "ok" =>
               /\ KeptEntries(ret.decks) # <<>>
               /\ "most_common_cards" \in DOMAIN ret.analysis
               /\ Entries(ret.analysis["most_common_cards"]) >= 1

\* the analysis of a batch with a deck of 40 basic lands and no other entry
C30_Witness ==
    /\ Analyzed
    /\ ret.status = "KeyError"
    /\ Len(ret.decks) >= 1
    /\ \A d \in 1..Len(ret.decks) :
           /\ Len(ret.decks[d]) = 40
           /\ \A k \in 1..40 : ret.decks[d][k].name \in LandNames

====
